---- MODULE Spec2Model ----
(***************************************************************************)
(* Verification model of the chat front-end components:                    *)
(*   - ChatMessagesView: pin / tag session annotations and their mirror in *)
(*     browser local storage (useState initializers, handleTogglePin,      *)
(*     handleSetTag, handleRemoveTag, "Clear All Pins", page reload);      *)
(*   - InputForm: handleSubmit / handleKeyDown;                            *)
(*   - ChatMessagesView: heuristic highlights / summary of a message, the  *)
(*     plain-text copy, the HTML export and the PDF export;                *)
(*   - ChatMessagesView: what the view renders for its messages (agent     *)
(*     identity, loading indicators, pinned badge and panel);              *)
(*   - ActivityTimeline: the icon of a timeline entry;                     *)
(*   - WelcomeScreen: handleChatSubmit.                                    *)
(***************************************************************************)
EXTENDS Naturals, Sequences, FiniteSets, TLC

VARIABLES
    pinnedMessages,   \* ChatMessagesView state: JS value held by useState<string[]>
    messageTagsMap,   \* ChatMessagesView state: JS value held by useState<Record<string,string>>
    localStorage,     \* browser storage: key -> [present, text]
    console,          \* set of console.error messages since the page was loaded
    uncaught,         \* where an exception escaped to React: "none" | "initializer" | "render"
    lastOp,           \* the handler that ran last, with its arguments and storage outcome
    prevOp,           \* the handler that ran before lastOp
    before,           \* pinnedMessages and messageTagsMap as the last handler found them
    inputValue,       \* InputForm state: text of the textarea (sequence of characters)
    isLoading,        \* InputForm prop
    onSubmitCalls,    \* arguments of the onSubmit invocations so far
    lastEvent,        \* the InputForm event handled last
    messages,            \* ChatMessagesView prop: message id -> content
    highlightsByMessage, \* ChatMessagesView state: message id -> list of sentences
    summaryByMessage,    \* ChatMessagesView state: message id -> summary text
    expandedInsights,    \* ChatMessagesView state: message id -> boolean
    expandedSummary,     \* ChatMessagesView state: message id -> boolean
    clipboard,           \* system clipboard: [written, text]
    copiedMessageId,     \* ChatMessagesView state: id shown as "Copied!", or "null"
    copyTimers,          \* pending setTimeout(() => setCopiedMessageId(null), 2000)
    download,            \* the file handed to the browser last: [kind, name, body]
    lastCall,            \* the export / insight handler that ran last, with its arguments
    pdfPhase,            \* handleDownloadPdf: "idle" | "content" | "footer" | "saved"
    cursorY,             \* handleDownloadPdf: let cursorY
    pdfPages,            \* jsPDF document: number of pages (doc.internal.pages.length - 1)
    pdfDrawn,            \* jsPDF calls issued for the content line processed last
    pdfFooters,          \* jsPDF document: footers stamped, page -> sequence of [page, of]
    pdfLines,            \* handleDownloadPdf: const lines
    pdfIndex,            \* handleDownloadPdf: the i of the loop that runs
    messageList,         \* ChatMessagesView prop messages: sequence of [id, type, agent]
    messageEvents,       \* ChatMessagesView prop: message id -> titles of its processed events
    chatView,            \* what ChatMessagesView rendered last
    processedEvents,     \* ActivityTimeline prop: titles of the processed events
    timeline,            \* what ActivityTimeline rendered last
    welcomeMessage,      \* WelcomeScreen state message: text of the chat input
    handleSubmitCalls    \* WelcomeScreen: the handleSubmit invocations so far

annotVars == <<pinnedMessages, messageTagsMap, localStorage, console, uncaught, lastOp>>
histVars == <<prevOp, before>>
formVars == <<inputValue, isLoading, onSubmitCalls, lastEvent>>
insightVars == <<highlightsByMessage, summaryByMessage, expandedInsights, expandedSummary>>
exportVars == <<clipboard, copiedMessageId, copyTimers, download>>
pdfVars == <<pdfPhase, cursorY, pdfPages, pdfDrawn, pdfFooters, pdfLines, pdfIndex>>
viewVars == <<messageList, messageEvents, chatView, processedEvents, timeline, welcomeMessage,
              handleSubmitCalls>>
vars == <<pinnedMessages, messageTagsMap, localStorage, console, uncaught, lastOp,
          prevOp, before, inputValue, isLoading, onSubmitCalls, lastEvent, messages,
          highlightsByMessage, summaryByMessage, expandedInsights, expandedSummary,
          clipboard, copiedMessageId, copyTimers, download, lastCall,
          pdfPhase, cursorY, pdfPages, pdfDrawn, pdfFooters, pdfLines, pdfIndex,
          messageList, messageEvents, chatView, processedEvents, timeline, welcomeMessage,
          handleSubmitCalls>>

----------------------------------------------------------------------------
(* Bounds *)

\* longest text typed into the InputForm textarea
MaxInputLen == 3
\* onSubmit invocations recorded
MaxCalls == 1
\* fragments a message body is made of
MaxFragments == 3
\* setTimeout callbacks of the copy indicator pending at once
MaxTimers == 2
\* headings ahead of the last lines of an exported message
MaxFill == 9
\* pieces doc.splitTextToSize breaks a line into
MaxWrap == 2
\* messages the hosting page passes to the chat view
MaxMessages == 2
\* processed events of one message
MaxEvents == 1
\* pieces the title of a processed event is made of
MaxTitleParts == 2

\* the ids of the AI messages on screen
MsgIds == {"m1", "m2"}

\* handleSetTag's parameter type: 'decision' | 'action' | 'idea'
Tags == {"decision", "action", "idea"}

PinnedKey == "epc-pinned-messages"
TagsKey == "epc-message-tags"

----------------------------------------------------------------------------
(* JavaScript values.  A value is a record [t, v]: t is the runtime type and *)
(* v the content: array -> sequence of strings, object -> sequence of        *)
(* <<key, value>> members in property order, number -> <<digits>>,           *)
(* null -> <<>>.                                                             *)

JsArr(s) == [t |-> "arr", v |-> s]
JsObj(members) == [t |-> "obj", v |-> members]
JsNum(d) == [t |-> "num", v |-> <<d>>]
JsNull == [t |-> "null", v |-> <<>>]

JsEq(a, b) == a.t = b.t /\ a.v = b.v

Range(s) == {s[i] : i \in 1..Len(s)}

\* Array.prototype.includes
Includes(arr, x) == \E i \in 1..Len(arr) : arr[i] = x

\* arr.filter((id) => id !== x)
RECURSIVE FilterOut(_, _)
FilterOut(arr, x) ==
    IF arr = <<>> THEN <<>>
    ELSE IF Head(arr) # x THEN <<Head(arr)>> \o FilterOut(Tail(arr), x)
    ELSE FilterOut(Tail(arr), x)

Keys(members) == {members[i][1] : i \in 1..Len(members)}

\* obj[key] = value on an ordinary object: an existing member keeps its place
\* and gets the new value, a new member goes last
SetMember(members, key, value) ==
    IF key \in Keys(members)
    THEN [i \in 1..Len(members) |->
             IF members[i][1] = key THEN <<key, value>> ELSE members[i]]
    ELSE Append(members, <<key, value>>)

\* delete obj[key]
RECURSIVE DeleteMember(_, _)
DeleteMember(members, key) ==
    IF members = <<>> THEN <<>>
    ELSE IF Head(members)[1] = key THEN DeleteMember(Tail(members), key)
    ELSE <<Head(members)>> \o DeleteMember(Tail(members), key)

IndexNames == <<"0", "1", "2", "3">>

\* { ...prev }: own enumerable properties of prev; an array spreads its
\* indices, a number and null spread nothing
Spread(prev) ==
    IF prev.t = "obj" THEN prev.v
    ELSE IF prev.t = "arr" THEN [i \in 1..Len(prev.v) |-> <<IndexNames[i], prev.v[i]>>]
    ELSE <<>>

----------------------------------------------------------------------------
(* JSON text: a sequence of tokens <<kind, text>>.                          *)

Punct(c) == <<"punct", c>>
StrTok(s) == <<"string", s>>
NumTok(d) == <<"number", d>>
NullTok == <<"literal", "null">>
BadTok == <<"junk", "oops">>

RECURSIVE ElementsText(_)
ElementsText(arr) ==
    IF arr = <<>> THEN <<>>
    ELSE IF Len(arr) = 1 THEN <<StrTok(arr[1])>>
    ELSE <<StrTok(arr[1]), Punct(",")>> \o ElementsText(Tail(arr))

RECURSIVE MembersText(_)
MembersText(members) ==
    IF members = <<>> THEN <<>>
    ELSE IF Len(members) = 1
         THEN <<StrTok(members[1][1]), Punct(":"), StrTok(members[1][2])>>
    ELSE <<StrTok(members[1][1]), Punct(":"), StrTok(members[1][2]), Punct(",")>>
             \o MembersText(Tail(members))

\* JSON.stringify of an array of strings or of an object of string members
JSONstringify(val) ==
    IF val.t = "arr" THEN <<Punct("[")>> \o ElementsText(val.v) \o <<Punct("]")>>
    ELSE <<Punct("{")>> \o MembersText(val.v) \o <<Punct("}")>>

\* the elements between [ and ]: string (, string)*
RECURSIVE ElementsOk(_)
ElementsOk(toks) ==
    IF toks = <<>> THEN FALSE
    ELSE IF toks[1][1] # "string" THEN FALSE
    ELSE IF Len(toks) = 1 THEN TRUE
    ELSE toks[2] = Punct(",") /\ ElementsOk(SubSeq(toks, 3, Len(toks)))

RECURSIVE ElementsValue(_)
ElementsValue(toks) ==
    IF Len(toks) <= 1 THEN <<toks[1][2]>>
    ELSE <<toks[1][2]>> \o ElementsValue(SubSeq(toks, 3, Len(toks)))

\* the members between { and }: string : string (, string : string)*
RECURSIVE MembersOk(_)
MembersOk(toks) ==
    IF Len(toks) < 3 THEN FALSE
    ELSE IF toks[1][1] # "string" \/ toks[2] # Punct(":") \/ toks[3][1] # "string" THEN FALSE
    ELSE IF Len(toks) = 3 THEN TRUE
    ELSE toks[4] = Punct(",") /\ MembersOk(SubSeq(toks, 5, Len(toks)))

\* a repeated key keeps its first place and takes the last value
RECURSIVE MembersValue(_, _)
MembersValue(toks, acc) ==
    IF Len(toks) < 3 THEN acc
    ELSE MembersValue(SubSeq(toks, 5, Len(toks)), SetMember(acc, toks[1][2], toks[3][2]))

\* JSON.parse on the grammar: null | number | array of strings | object of
\* string members.  [ok |-> FALSE] stands for the SyntaxError it throws.
JSONparse(text) ==
    LET n == Len(text)
        inner == SubSeq(text, 2, n - 1)
        Fail == [ok |-> FALSE, value |-> JsNull]
    IN  IF n = 0 THEN Fail
        ELSE IF n = 1 THEN
             IF text[1] = NullTok THEN [ok |-> TRUE, value |-> JsNull]
             ELSE IF text[1][1] = "number" THEN [ok |-> TRUE, value |-> JsNum(text[1][2])]
             ELSE Fail
        ELSE IF text[1] = Punct("[") /\ text[n] = Punct("]") THEN
             IF inner = <<>> THEN [ok |-> TRUE, value |-> JsArr(<<>>)]
             ELSE IF ElementsOk(inner) THEN [ok |-> TRUE, value |-> JsArr(ElementsValue(inner))]
             ELSE Fail
        ELSE IF text[1] = Punct("{") /\ text[n] = Punct("}") THEN
             IF inner = <<>> THEN [ok |-> TRUE, value |-> JsObj(<<>>)]
             ELSE IF MembersOk(inner) THEN [ok |-> TRUE, value |-> JsObj(MembersValue(inner, <<>>))]
             ELSE Fail
        ELSE Fail

----------------------------------------------------------------------------
(* Browser local storage *)

Absent == [present |-> FALSE, text |-> <<>>]
Stored(text) == [present |-> TRUE, text |-> text]

\* localStorage.getItem(key): the stored text, or null
getItem(store, key) == store[key]

\* a string is truthy unless it is null or empty
Truthy(saved) == saved.present /\ saved.text # <<>>

\* localStorage.setItem(key, text) that does not throw
setItem(store, key, text) == [store EXCEPT ![key] = Stored(text)]

\* localStorage.removeItem(key)
removeItem(store, key) == [store EXCEPT ![key] = Absent]

----------------------------------------------------------------------------
(* ChatMessagesView: construction *)

Returned(value) == [threw |-> FALSE, value |-> value]
Thrown == [threw |-> TRUE, value |-> JsNull]

\* variant: no try/catch around JSON.parse
LoadOrThrow(store, key, fallback) ==
    LET saved == getItem(store, key)
        parsed == JSONparse(saved.text)
    IN  IF ~Truthy(saved) THEN Returned(fallback)
        ELSE IF parsed.ok THEN Returned(parsed.value)
        ELSE Thrown

\* try { const saved = localStorage.getItem(key);
\*       return saved ? JSON.parse(saved) : fallback }
\* catch { return fallback }
LoadOrDefault(store, key, fallback) ==
    LET saved == getItem(store, key)
        parsed == JSONparse(saved.text)
    IN  IF ~Truthy(saved) THEN Returned(fallback)
        ELSE IF parsed.ok THEN Returned(parsed.value)
        ELSE Returned(fallback)

\* useState<string[]>(() => ...) initializer of pinnedMessages
pinnedMessagesInit(store) == LoadOrDefault(store, PinnedKey, JsArr(<<>>))

\* useState<Record<string, string>>(() => ...) initializer of messageTagsMap
messageTagsMapInit(store) == LoadOrDefault(store, TagsKey, JsObj(<<>>))

\* The first render evaluates pinnedMessages.length, pinnedMessages.map(...) when
\* the length is not 0, pinnedMessages.includes(message.id) and
\* messageTagsMap[message.id] for the AI messages: a TypeError unless
\* pinnedMessages is an array and messageTagsMap is not null.
RenderThrows(pinned, tags) == pinned.t # "arr" \/ tags.t = "null"

NoOp == [op |-> "none", id |-> "", tag |-> "", failed |-> FALSE]
Op(name, id, tag, failed) == [op |-> name, id |-> id, tag |-> tag, failed |-> failed]

\* the component state right after it is constructed over `store`
Mounted(store) ==
    LET p == pinnedMessagesInit(store)
        t == messageTagsMapInit(store)
    IN  [pinned |-> p.value,
         tags |-> t.value,
         uncaught |-> IF p.threw \/ t.threw THEN "initializer"
                      ELSE IF RenderThrows(p.value, t.value) THEN "render"
                      ELSE "none"]

\* what the pinned key may hold when the page is opened: nothing, an empty
\* text, lists the component wrote, cut or foreign text, JSON of another shape
PinnedStoredChoices ==
    { Absent,
      Stored(<<>>),
      Stored(JSONstringify(JsArr(<<>>))),
      Stored(JSONstringify(JsArr(<<"m1">>))),
      Stored(JSONstringify(JsArr(<<"m2", "m1">>))),
      Stored(<<Punct("["), StrTok("m1")>>),
      Stored(<<BadTok>>),
      Stored(<<NullTok>>),
      Stored(<<NumTok("5")>>),
      Stored(JSONstringify(JsObj(<< <<"m1", "action">> >>))) }

\* lists no run of the handlers writes: a repeated id, an id of an earlier session
PinnedStoredForeign ==
    { Stored(JSONstringify(JsArr(<<"m1", "m2", "m1">>))),
      Stored(JSONstringify(JsArr(<<"old-session-id">>))) }

TagsStoredChoices ==
    { Absent,
      Stored(JSONstringify(JsObj(<<>>))),
      Stored(JSONstringify(JsObj(<< <<"m1", "action">> >>))),
      Stored(<<Punct("{"), StrTok("m1"), Punct(":")>>),
      Stored(<<NullTok>>),
      Stored(<<NumTok("5")>>),
      Stored(JSONstringify(JsArr(<<>>))) }

\* texts no run of the handlers writes: a tag of another vocabulary, one key
\* named twice, an array with an element
TagsStoredForeign ==
    { Stored(JSONstringify(JsObj(<< <<"m1", "urgent">> >>))),
      Stored(<<Punct("{"), StrTok("m1"), Punct(":"), StrTok("action"), Punct(","),
               StrTok("m1"), Punct(":"), StrTok("idea"), Punct("}")>>),
      Stored(JSONstringify(JsArr(<<"action">>))) }

Snapshot == [pinned |-> pinnedMessages, tags |-> messageTagsMap]
\* no handler has run yet
NoSnapshot == [pinned |-> JsNull, tags |-> JsNull]

\* the state after construction over a storage that holds p and t
InitAnnotations(pinnedChoices, tagsChoices) ==
    /\ \E p \in pinnedChoices, t \in tagsChoices :
          localStorage = [k \in {PinnedKey, TagsKey} |-> IF k = PinnedKey THEN p ELSE t]
    /\ pinnedMessages = Mounted(localStorage).pinned
    /\ messageTagsMap = Mounted(localStorage).tags
    /\ uncaught = Mounted(localStorage).uncaught
    /\ console = {}
    /\ lastOp = Op("mount", "", "", FALSE)
    /\ prevOp = NoOp
    /\ before = NoSnapshot

----------------------------------------------------------------------------
(* ChatMessagesView: pin / tag handlers.  A handler is reachable only from a *)
(* rendered message toolbar, hence the guard uncaught = "none".              *)

\* variant: the id is appended whether it is pinned or not ([...prev, messageId])
TogglePinAlwaysAppends(prev, messageId) == Append(prev, messageId)

\* variant: the filter keeps the id instead of dropping it (=== for !==)
TogglePinKeepsId(prev, messageId) ==
    IF Includes(prev, messageId) THEN SelectSeq(prev, LAMBDA id : id = messageId)
    ELSE Append(prev, messageId)

\* variant: a new pin goes first ([messageId, ...prev])
TogglePinPrepends(prev, messageId) ==
    IF Includes(prev, messageId) THEN FilterOut(prev, messageId)
    ELSE <<messageId>> \o prev

\* prev.includes(messageId) ? prev.filter((id) => id !== messageId) : [...prev, messageId]
TogglePinUpdated(prev, messageId) ==
    IF Includes(prev, messageId) THEN FilterOut(prev, messageId)
    ELSE Append(prev, messageId)

\* variant: the spread comes last, so a tag the message has already wins
\* ({ [messageId]: tag, ...prev })
SetTagSpreadLast(prev, messageId, tag) ==
    IF messageId \in Keys(Spread(prev)) THEN Spread(prev)
    ELSE <<<<messageId, tag>>>> \o Spread(prev)

\* { ...prev, [messageId]: tag }
SetTagUpdated(prev, messageId, tag) == SetMember(Spread(prev), messageId, tag)

\* const updated = { ...prev }; delete updated[messageId]
RemoveTagUpdated(prev, messageId) == DeleteMember(Spread(prev), messageId)

\* variant: every handler writes under the tag key (a key copied from the
\* neighbouring handler)
SaveUnderTagsKey(store, log, key, updated, throws, message) ==
    IF throws THEN [store |-> store, console |-> log \cup {message}]
    ELSE [store |-> setItem(store, TagsKey, JSONstringify(updated)), console |-> log]

\* try { localStorage.setItem(key, JSON.stringify(updated)) }
\* catch (err) { console.error(message, err) }
\* `throws`: setItem raises (quota exceeded, storage disabled)
SaveOrLog(store, log, key, updated, throws, message) ==
    IF throws THEN [store |-> store, console |-> log \cup {message}]
    ELSE [store |-> setItem(store, key, JSONstringify(updated)), console |-> log]

PinSaveError == "Failed to save pinned messages:"
TagSaveError == "Failed to save message tags:"
TagRemoveError == "Failed to remove message tag:"

\* variant: the updater gives back prev when the write throws
handleTogglePinRollsBack(messageId) ==
    /\ uncaught = "none"
    /\ \E throws \in BOOLEAN :
          LET updated == JsArr(TogglePinUpdated(pinnedMessages.v, messageId))
              saved == SaveOrLog(localStorage, console, PinnedKey, updated, throws, PinSaveError)
          IN  /\ pinnedMessages' = IF throws THEN pinnedMessages ELSE updated
              /\ localStorage' = saved.store
              /\ console' = saved.console
              /\ lastOp' = Op("togglePin", messageId, "", throws)
    /\ UNCHANGED <<messageTagsMap, uncaught>>

handleTogglePin(messageId) ==
    /\ uncaught = "none"
    /\ \E throws \in BOOLEAN :
          LET updated == JsArr(TogglePinUpdated(pinnedMessages.v, messageId))
              saved == SaveOrLog(localStorage, console, PinnedKey, updated, throws, PinSaveError)
          IN  /\ pinnedMessages' = updated
              /\ localStorage' = saved.store
              /\ console' = saved.console
              /\ lastOp' = Op("togglePin", messageId, "", throws)
    /\ UNCHANGED <<messageTagsMap, uncaught>>

handleSetTag(messageId, tag) ==
    /\ uncaught = "none"
    /\ \E throws \in BOOLEAN :
          LET updated == JsObj(SetTagUpdated(messageTagsMap, messageId, tag))
              saved == SaveOrLog(localStorage, console, TagsKey, updated, throws, TagSaveError)
          IN  /\ messageTagsMap' = updated
              /\ localStorage' = saved.store
              /\ console' = saved.console
              /\ lastOp' = Op("setTag", messageId, tag, throws)
    /\ UNCHANGED <<pinnedMessages, uncaught>>

handleRemoveTag(messageId) ==
    /\ uncaught = "none"
    /\ \E throws \in BOOLEAN :
          LET updated == JsObj(RemoveTagUpdated(messageTagsMap, messageId))
              saved == SaveOrLog(localStorage, console, TagsKey, updated, throws, TagRemoveError)
          IN  /\ messageTagsMap' = updated
              /\ localStorage' = saved.store
              /\ console' = saved.console
              /\ lastOp' = Op("removeTag", messageId, "", throws)
    /\ UNCHANGED <<pinnedMessages, uncaught>>

\* variant: the state is cleared and the stored list is left behind
ClearAllPinsKeepsStorage ==
    /\ uncaught = "none"
    /\ Len(pinnedMessages.v) > 0
    /\ pinnedMessages' = JsArr(<<>>)
    /\ lastOp' = Op("clearPins", "", "", FALSE)
    /\ UNCHANGED <<localStorage, messageTagsMap, console, uncaught>>

\* "Clear All Pins", rendered when pinnedMessages.length > 0:
\* setPinnedMessages([]); localStorage.removeItem('epc-pinned-messages')
ClearAllPins ==
    /\ uncaught = "none"
    /\ Len(pinnedMessages.v) > 0
    /\ pinnedMessages' = JsArr(<<>>)
    /\ localStorage' = removeItem(localStorage, PinnedKey)
    /\ lastOp' = Op("clearPins", "", "", FALSE)
    /\ UNCHANGED <<messageTagsMap, console, uncaught>>

\* window.location.reload() (handleNewChat, or the browser's reload): the
\* component is constructed again over the storage as it is
handleNewChat ==
    /\ pinnedMessages' = Mounted(localStorage).pinned
    /\ messageTagsMap' = Mounted(localStorage).tags
    /\ uncaught' = Mounted(localStorage).uncaught
    /\ console' = {}
    /\ lastOp' = Op("reload", "", "", FALSE)
    /\ UNCHANGED localStorage

----------------------------------------------------------------------------
(* InputForm *)

\* the characters typed into the textarea; Shift+Enter inserts the line break
Chars == {"a", " ", "\n"}
WhiteSpace == {" ", "\n"}

RECURSIVE TrimStart(_)
TrimStart(s) ==
    IF s # <<>> /\ Head(s) \in WhiteSpace THEN TrimStart(Tail(s)) ELSE s

RECURSIVE TrimEnd(_)
TrimEnd(s) ==
    IF s # <<>> /\ s[Len(s)] \in WhiteSpace THEN TrimEnd(SubSeq(s, 1, Len(s) - 1)) ELSE s

\* String.prototype.trim
Trim(s) == TrimEnd(TrimStart(s))

Texts == UNION {[1..n -> Chars] : n \in 0..MaxInputLen}

Event(kind, accepted, rawLen) == [kind |-> kind, accepted |-> accepted, rawLen |-> rawLen]

InitForm ==
    /\ inputValue = <<>>
    /\ isLoading = FALSE
    /\ onSubmitCalls = <<>>
    /\ lastEvent = Event("none", FALSE, 0)

\* onChange={(e) => setInputValue(e.target.value)}: typing, deleting, pasting
onChange(value) ==
    /\ inputValue' = value
    /\ lastEvent' = Event("change", FALSE, 0)
    /\ UNCHANGED <<isLoading, onSubmitCalls>>

\* variant: the handler does not look at isLoading
handleSubmitIgnoresLoading(kind) ==
    /\ IF Trim(inputValue) # <<>>
       THEN /\ Len(onSubmitCalls) < MaxCalls
            /\ onSubmitCalls' = Append(onSubmitCalls, Trim(inputValue))
            /\ inputValue' = <<>>
            /\ lastEvent' = Event(kind, TRUE, Len(inputValue))
       ELSE /\ UNCHANGED <<inputValue, onSubmitCalls>>
            /\ lastEvent' = Event(kind, FALSE, Len(inputValue))
    /\ UNCHANGED isLoading

\* if (inputValue.trim() && !isLoading) { onSubmit(inputValue.trim()); setInputValue("") }
handleSubmit(kind) ==
    /\ IF Trim(inputValue) # <<>> /\ ~isLoading
       THEN /\ Len(onSubmitCalls) < MaxCalls
            /\ onSubmitCalls' = Append(onSubmitCalls, Trim(inputValue))
            /\ inputValue' = <<>>
            /\ lastEvent' = Event(kind, TRUE, Len(inputValue))
       ELSE /\ UNCHANGED <<inputValue, onSubmitCalls>>
            /\ lastEvent' = Event(kind, FALSE, Len(inputValue))
    /\ UNCHANGED isLoading

\* if (e.key === "Enter" && !e.shiftKey) { e.preventDefault(); handleSubmit(e) }
\* any other key is left to the textarea, which reports the edit through onChange
handleKeyDown(key, shiftKey) ==
    IF key = "Enter" /\ ~shiftKey
    THEN handleSubmit("enter")
    ELSE /\ lastEvent' = Event("key", FALSE, 0)
         /\ UNCHANGED <<inputValue, isLoading, onSubmitCalls>>

\* <button type="submit" disabled={isLoading || !inputValue.trim()}> inside
\* <form onSubmit={handleSubmit}>: a disabled button dispatches no submit event
SendButtonClick ==
    IF isLoading \/ Trim(inputValue) = <<>>
    THEN /\ lastEvent' = Event("click", FALSE, Len(inputValue))
         /\ UNCHANGED <<inputValue, isLoading, onSubmitCalls>>
    ELSE handleSubmit("click")

\* the hosting page changes the isLoading prop
SetLoading(b) ==
    /\ isLoading' = b
    /\ isLoading # b
    /\ lastEvent' = Event("prop", FALSE, 0)
    /\ UNCHANGED <<inputValue, onSubmitCalls>>

----------------------------------------------------------------------------
(* Text.  A string is a sequence of characters; "http://" and "https://" are *)
(* kept as one element each, as are the HTML tags the export inserts.  A     *)
(* regular expression is modelled by the matches it finds from left to       *)
(* right: a match is [from, to, g1, g2] with g1, g2 the captured groups.     *)

Match(from, to, g1, g2) == [from |-> from, to |-> to, g1 |-> g1, g2 |-> g2]

Least(S) == CHOOSE x \in S : \A y \in S : x <= y

\* the first position at or after i that holds a character of S, 0 if none
IndexFrom(s, i, S) ==
    LET J == {j \in i..Len(s) : s[j] \in S}
    IN  IF J = {} THEN 0 ELSE Least(J)

\* the last position of the run of characters of S that starts at i (i - 1 if
\* the run is empty)
SpanIn(s, i, S) ==
    LET J == {j \in i..Len(s) : s[j] \notin S}
    IN  IF J = {} THEN Len(s) ELSE Least(J) - 1

\* the last position of the run of characters outside S that starts at i
SpanNotIn(s, i, S) ==
    LET J == {j \in i..Len(s) : s[j] \in S}
    IN  IF J = {} THEN Len(s) ELSE Least(J) - 1

\* ^ under the m flag
AtLineStart(s, i) == i = 1 \/ s[i - 1] = "\n"

\* $ under the m flag, looking at the position after i
AtLineEnd(s, i) == i = Len(s) \/ s[i + 1] = "\n"

RECURSIVE Substituted(_, _, _, _)
Substituted(s, ms, k, pos) ==
    IF k > Len(ms) THEN SubSeq(s, pos, Len(s))
    ELSE SubSeq(s, pos, ms[k].from - 1) \o ms[k].with
            \o Substituted(s, ms, k + 1, ms[k].to + 1)

\* String.prototype.replace with a g-flagged expression: every match gives way
\* to With(match)
Replace(s, matches, With(_)) ==
    Substituted(s,
                [k \in 1..Len(matches) |->
                    [from |-> matches[k].from, to |-> matches[k].to, with |-> With(matches[k])]],
                1, 1)

Group1(m) == m.g1
Nothing(m) == <<>>
OneSpace(m) == <<" ">>

\* the character U+0060 (grave accent), written BT in the comments below
Backtick == "U+0060"

FenceAt(s, i) ==
    i + 2 <= Len(s) /\ s[i] = Backtick /\ s[i + 1] = Backtick /\ s[i + 2] = Backtick

\* the first position at or after i where a BTBTBT starts, 0 if none
NextFence(s, i) ==
    LET J == {j \in i..Len(s) : FenceAt(s, j)}
    IN  IF J = {} THEN 0 ELSE Least(J)

\* variant: [\s\S]* for [\s\S]*?, the match runs to the last BTBTBT of the text
RECURSIVE FenceMatchesGreedy(_, _)
FenceMatchesGreedy(s, i) ==
    IF i > Len(s) THEN <<>>
    ELSE LET J == {j \in (i + 3)..Len(s) : FenceAt(s, j)}
             close == CHOOSE x \in J : \A y \in J : y <= x
         IN  IF FenceAt(s, i) /\ J # {}
             THEN <<Match(i, close + 2, <<>>, <<>>)>> \o FenceMatchesGreedy(s, close + 3)
             ELSE FenceMatchesGreedy(s, i + 1)

\* /BTBTBT[\s\S]*?BTBTBT/g
RECURSIVE FenceMatches(_, _)
FenceMatches(s, i) ==
    IF i > Len(s) THEN <<>>
    ELSE LET close == NextFence(s, i + 3)
         IN  IF FenceAt(s, i) /\ close # 0
             THEN <<Match(i, close + 2, <<>>, <<>>)>> \o FenceMatches(s, close + 3)
             ELSE FenceMatches(s, i + 1)

\* /BT([^BT]+)BT/g
RECURSIVE InlineCodeMatches(_, _)
InlineCodeMatches(s, i) ==
    IF i > Len(s) THEN <<>>
    ELSE LET close == IndexFrom(s, i + 1, {Backtick})
         IN  IF s[i] = Backtick /\ close > i + 1
             THEN <<Match(i, close, SubSeq(s, i + 1, close - 1), <<>>)>>
                     \o InlineCodeMatches(s, close + 1)
             ELSE InlineCodeMatches(s, i + 1)

Markers == {"#", ">", "-", "*", "+"}

\* /^[#>\-\*\+]+\s+/gm
RECURSIVE LineMarkerMatches(_, _)
LineMarkerMatches(s, i) ==
    IF i > Len(s) THEN <<>>
    ELSE LET m == SpanIn(s, i, Markers)
             w == SpanIn(s, m + 1, WhiteSpace)
         IN  IF AtLineStart(s, i) /\ m >= i /\ w > m
             THEN <<Match(i, w, <<>>, <<>>)>> \o LineMarkerMatches(s, w + 1)
             ELSE LineMarkerMatches(s, i + 1)

\* \[([^\]]+)\]\(([^)]+)\) tried at position i: the match, or from = 0
LinkAt(s, i) ==
    LET j == IndexFrom(s, i + 1, {"]"})
        k == IndexFrom(s, j + 2, {")"})
    IN  IF /\ i <= Len(s) /\ s[i] = "["
           /\ j > i + 1
           /\ j + 1 <= Len(s) /\ s[j + 1] = "("
           /\ k > j + 2
        THEN Match(i, k, SubSeq(s, i + 1, j - 1), SubSeq(s, j + 2, k - 1))
        ELSE Match(0, 0, <<>>, <<>>)

\* /\[([^\]]+)\]\(([^)]+)\)/g
RECURSIVE LinkMatches(_, _)
LinkMatches(s, i) ==
    IF i > Len(s) THEN <<>>
    ELSE IF LinkAt(s, i).from # 0
         THEN <<LinkAt(s, i)>> \o LinkMatches(s, LinkAt(s, i).to + 1)
         ELSE LinkMatches(s, i + 1)

\* !\[([^\]]*)\]\(([^)]+)\) tried at position i
ImageAt(s, i) ==
    LET j == IndexFrom(s, i + 2, {"]"})
        k == IndexFrom(s, j + 2, {")"})
    IN  IF /\ i + 1 <= Len(s) /\ s[i] = "!" /\ s[i + 1] = "["
           /\ j # 0
           /\ j + 1 <= Len(s) /\ s[j + 1] = "("
           /\ k > j + 2
        THEN Match(i, k, SubSeq(s, i + 2, j - 1), SubSeq(s, j + 2, k - 1))
        ELSE Match(0, 0, <<>>, <<>>)

\* /!\[([^\]]*)\]\(([^)]+)\)/g
RECURSIVE ImageMatches(_, _)
ImageMatches(s, i) ==
    IF i > Len(s) THEN <<>>
    ELSE IF ImageAt(s, i).from # 0
         THEN <<ImageAt(s, i)>> \o ImageMatches(s, ImageAt(s, i).to + 1)
         ELSE ImageMatches(s, i + 1)

\* /\s+/g
RECURSIVE WhiteSpaceMatches(_, _)
WhiteSpaceMatches(s, i) ==
    IF i > Len(s) THEN <<>>
    ELSE IF s[i] \in WhiteSpace
         THEN <<Match(i, SpanIn(s, i, WhiteSpace), <<>>, <<>>)>>
                 \o WhiteSpaceMatches(s, SpanIn(s, i, WhiteSpace) + 1)
         ELSE WhiteSpaceMatches(s, i + 1)

Terminators == {".", "!", "?"}

\* /(?<=[\.!\?])\s+/ : the separators String.prototype.split cuts at
RECURSIVE SentenceBreaks(_, _)
SentenceBreaks(s, i) ==
    IF i > Len(s) THEN <<>>
    ELSE IF i > 1 /\ s[i] \in WhiteSpace /\ s[i - 1] \in Terminators
         THEN <<Match(i, SpanIn(s, i, WhiteSpace), <<>>, <<>>)>>
                 \o SentenceBreaks(s, SpanIn(s, i, WhiteSpace) + 1)
         ELSE SentenceBreaks(s, i + 1)

RECURSIVE Pieces(_, _, _, _)
Pieces(s, seps, k, pos) ==
    IF k > Len(seps) THEN <<SubSeq(s, pos, Len(s))>>
    ELSE <<SubSeq(s, pos, seps[k].from - 1)>> \o Pieces(s, seps, k + 1, seps[k].to + 1)

\* String.prototype.split
Split(s, seps) == Pieces(s, seps, 1, 1)

\* Array.prototype.join
RECURSIVE Join(_, _)
Join(parts, sep) ==
    IF parts = <<>> THEN <<>>
    ELSE IF Len(parts) = 1 THEN parts[1]
    ELSE parts[1] \o sep \o Join(Tail(parts), sep)

\* Array.prototype.slice(0, n)
Slice0(arr, n) == SubSeq(arr, 1, IF Len(arr) < n THEN Len(arr) ELSE n)

\* { ...prev, [key]: value } on a Record<string, T>
Put(prev, key, value) ==
    [k \in DOMAIN prev \cup {key} |-> IF k = key THEN value ELSE prev[k]]

\* obj[key] is truthy
Has(obj, key) == key \in DOMAIN obj

EmptyRecord == [k \in {} |-> <<>>]

Call(fn, content, id) == [fn |-> fn, content |-> content, id |-> id]

----------------------------------------------------------------------------
(* ChatMessagesView: heuristic highlights and summary *)

\* the calls chained on raw by handleGenerateHighlights and
\* handleGenerateSummary, in their order
CleaningStep(text, step) ==
    CASE step = 1 -> Replace(text, FenceMatches(text, 1), OneSpace)
      [] step = 2 -> Replace(text, InlineCodeMatches(text, 1), Group1)
      [] step = 3 -> Replace(text, LineMarkerMatches(text, 1), Nothing)
      [] step = 4 -> Replace(text, LinkMatches(text, 1), Group1)
      [] step = 5 -> Replace(text, ImageMatches(text, 1), Group1)
      [] step = 6 -> Replace(text, WhiteSpaceMatches(text, 1), OneSpace)
      [] step = 7 -> Trim(text)

RECURSIVE CleaningSteps(_, _, _)
CleaningSteps(text, step, last) ==
    IF step > last THEN text ELSE CleaningSteps(CleaningStep(text, step), step + 1, last)

\* the cleaning chain shared by handleGenerateHighlights and handleGenerateSummary
InsightCleaned(raw) == CleaningSteps(raw, 1, 7)

\* cleaned.split(/(?<=[\.!\?])\s+/).map((s) => s.trim()).filter((s) => s.length > 0)
InsightSentences(cleaned) ==
    LET parts == Split(cleaned, SentenceBreaks(cleaned, 1))
        trimmed == [k \in 1..Len(parts) |-> Trim(parts[k])]
    IN  SelectSeq(trimmed, LAMBDA p : Len(p) > 0)

\* Math.min(s.length, 300)
Score(sentence) == IF Len(sentence) < 300 THEN Len(sentence) ELSE 300

\* where x goes in a list sorted by falling score: behind every entry that
\* scores at least as much (Array.prototype.sort is stable)
RECURSIVE InsertByScore(_, _)
InsertByScore(sorted, x) ==
    IF sorted = <<>> THEN <<x>>
    ELSE IF Score(Head(sorted)) >= Score(x) THEN <<Head(sorted)>> \o InsertByScore(Tail(sorted), x)
    ELSE <<x>> \o sorted

\* .sort((a, b) => b.score - a.score)
RECURSIVE SortByScore(_, _)
SortByScore(done, rest) ==
    IF rest = <<>> THEN done
    ELSE SortByScore(InsertByScore(done, Head(rest)), Tail(rest))

\* variant: the first five sentences as they come (no sort)
TopHighlightsFirstFive(sentences) == Slice0(sentences, 5)

\* variant: slice(0, 6)
TopHighlightsSix(sentences) == Slice0(SortByScore(<<>>, sentences), 6)

\* scored.slice(0, 5).map((s) => s.text)
TopHighlights(sentences) == Slice0(SortByScore(<<>>, sentences), 5)

\* variant: the sentences are joined without the separator (join(""))
SummaryOfGlued(sentences) == Join(Slice0(sentences, 3), <<>>)

\* sentences.slice(0, 3).join(" ")
SummaryOf(sentences) == Join(Slice0(sentences, 3), <<" ">>)

\* variant: no early return, an empty cleaned text is cached like any other
handleGenerateHighlightsAlways(content, messageId) ==
    LET cleaned == InsightCleaned(content)
    IN  /\ uncaught = "none"
        /\ lastCall' = Call("highlights", content, messageId)
        /\ highlightsByMessage' =
              Put(highlightsByMessage, messageId, TopHighlights(InsightSentences(cleaned)))
        /\ expandedInsights' = Put(expandedInsights, messageId, TRUE)
        /\ UNCHANGED <<summaryByMessage, expandedSummary>>

handleGenerateHighlights(content, messageId) ==
    LET cleaned == InsightCleaned(content)
    IN  /\ uncaught = "none"
        /\ lastCall' = Call("highlights", content, messageId)
        /\ IF cleaned = <<>>
           THEN UNCHANGED insightVars
           ELSE /\ highlightsByMessage' =
                      Put(highlightsByMessage, messageId, TopHighlights(InsightSentences(cleaned)))
                /\ expandedInsights' = Put(expandedInsights, messageId, TRUE)
                /\ UNCHANGED <<summaryByMessage, expandedSummary>>

handleGenerateSummary(content, messageId) ==
    LET cleaned == InsightCleaned(content)
    IN  /\ uncaught = "none"
        /\ lastCall' = Call("summary", content, messageId)
        /\ IF cleaned = <<>>
           THEN UNCHANGED insightVars
           ELSE /\ summaryByMessage' =
                      Put(summaryByMessage, messageId, SummaryOf(InsightSentences(cleaned)))
                /\ expandedSummary' = Put(expandedSummary, messageId, TRUE)
                /\ UNCHANGED <<highlightsByMessage, expandedInsights>>

\* the Show / Hide button of the highlights card, rendered when
\* highlightsByMessage[message.id] holds at least one entry
ToggleInsights(messageId) ==
    /\ uncaught = "none"
    /\ Has(highlightsByMessage, messageId) /\ Len(highlightsByMessage[messageId]) > 0
    /\ lastCall' = Call("toggleInsights", <<>>, messageId)
    /\ expandedInsights' =
          Put(expandedInsights, messageId,
              ~(Has(expandedInsights, messageId) /\ expandedInsights[messageId]))
    /\ UNCHANGED <<highlightsByMessage, summaryByMessage, expandedSummary>>

\* the Show / Hide button of the summary card, rendered when
\* summaryByMessage[message.id] is a non-empty string
ToggleSummary(messageId) ==
    /\ uncaught = "none"
    /\ Has(summaryByMessage, messageId) /\ Len(summaryByMessage[messageId]) > 0
    /\ lastCall' = Call("toggleSummary", <<>>, messageId)
    /\ expandedSummary' =
          Put(expandedSummary, messageId,
              ~(Has(expandedSummary, messageId) /\ expandedSummary[messageId]))
    /\ UNCHANGED <<highlightsByMessage, summaryByMessage, expandedInsights>>

----------------------------------------------------------------------------
(* ChatMessagesView: copy as plain text *)

\* code points of [\u{1F300}-\u{1FAFF}], one element each
EmojiPictographs == {"U+1F600"}
\* code points of [\u{2600}-\u{26FF}\u{2700}-\u{27BF}]
EmojiSymbols == {"U+2600"}

\* /\n{3,}/g
RECURSIVE BlankLineMatches(_, _)
BlankLineMatches(s, i) ==
    IF i > Len(s) THEN <<>>
    ELSE LET e == SpanIn(s, i, {"\n"})
         IN  IF e >= i + 2
             THEN <<Match(i, e, <<>>, <<>>)>> \o BlankLineMatches(s, e + 1)
             ELSE BlankLineMatches(s, i + 1)

TwoNewlines(m) == <<"\n", "\n">>

\* a g-flagged character class replaced by ""
Without(s, S) == SelectSeq(s, LAMBDA c : c \notin S)

\* the calls chained on the content by handleCopyPlainText, in their order
PlainStep(text, step) ==
    CASE step = 1 -> Replace(text, FenceMatches(text, 1), Nothing)
      [] step = 2 -> Replace(text, InlineCodeMatches(text, 1), Group1)
      [] step = 3 -> Replace(text, LineMarkerMatches(text, 1), Nothing)
      [] step = 4 -> Replace(text, LinkMatches(text, 1), Group1)
      [] step = 5 -> Replace(text, ImageMatches(text, 1), Group1)
      [] step = 6 -> Replace(text, BlankLineMatches(text, 1), TwoNewlines)
      [] step = 7 -> Without(text, EmojiPictographs \cup EmojiSymbols)
      [] step = 8 -> Trim(text)

RECURSIVE PlainSteps(_, _, _)
PlainSteps(text, step, last) ==
    IF step > last THEN text ELSE PlainSteps(PlainStep(text, step), step + 1, last)

\* the substitutions of handleCopyPlainText that follow the fence removal
PlainAfterFences(a) == PlainSteps(a, 2, 8)

\* the substitution chain of handleCopyPlainText
PlainText(content) == PlainSteps(content, 1, 8)

CopyPlainError == "Failed to copy plain text:"

NoClipboard == [written |-> FALSE, text |-> <<>>]

\* try { await navigator.clipboard.writeText(text); setCopiedMessageId(messageId);
\*       setTimeout(() => setCopiedMessageId(null), 2000) }
\* catch (err) { console.error("Failed to copy plain text:", err) }
\* throws: writeText rejects (no permission, document not focused)
handleCopyPlainText(content, messageId) ==
    /\ uncaught = "none"
    /\ \E throws \in BOOLEAN :
          IF throws
          THEN /\ lastCall' = Call("copyPlainFailed", content, messageId)
               /\ console' = console \cup {CopyPlainError}
               /\ UNCHANGED <<clipboard, copiedMessageId, copyTimers>>
          ELSE /\ copyTimers < MaxTimers
               /\ lastCall' = Call("copyPlain", content, messageId)
               /\ clipboard' = [written |-> TRUE, text |-> PlainText(content)]
               /\ copiedMessageId' = messageId
               /\ copyTimers' = copyTimers + 1
               /\ UNCHANGED console

\* () => setCopiedMessageId(null), two seconds after a copy
CopiedTimeout ==
    /\ copyTimers > 0
    /\ copiedMessageId' = "null"
    /\ copyTimers' = copyTimers - 1
    /\ lastCall' = Call("copiedTimeout", <<>>, "")
    /\ UNCHANGED <<clipboard, console>>

CopyError == "Failed to copy text:"
CopyMarkdownError == "Failed to copy markdown:"

\* try { await navigator.clipboard.writeText(text); setCopiedMessageId(messageId);
\*       setTimeout(() => setCopiedMessageId(null), 2000) }
\* catch (err) { console.error("Failed to copy text:", err) }
\* the timer started by an earlier copy is left running
handleCopy(text, messageId) ==
    /\ uncaught = "none"
    /\ \E throws \in BOOLEAN :
          IF throws
          THEN /\ lastCall' = Call("copyFailed", text, messageId)
               /\ console' = console \cup {CopyError}
               /\ UNCHANGED <<clipboard, copiedMessageId, copyTimers>>
          ELSE /\ copyTimers < MaxTimers
               /\ lastCall' = Call("copy", text, messageId)
               /\ clipboard' = [written |-> TRUE, text |-> text]
               /\ copiedMessageId' = messageId
               /\ copyTimers' = copyTimers + 1
               /\ UNCHANGED console

\* the same with writeText(content || "") and "Failed to copy markdown:"
handleCopyMarkdown(content, messageId) ==
    /\ uncaught = "none"
    /\ \E throws \in BOOLEAN :
          IF throws
          THEN /\ lastCall' = Call("copyMarkdownFailed", content, messageId)
               /\ console' = console \cup {CopyMarkdownError}
               /\ UNCHANGED <<clipboard, copiedMessageId, copyTimers>>
          ELSE /\ copyTimers < MaxTimers
               /\ lastCall' = Call("copyMarkdown", content, messageId)
               /\ clipboard' = [written |-> TRUE, text |-> content]
               /\ copiedMessageId' = messageId
               /\ copyTimers' = copyTimers + 1
               /\ UNCHANGED console

----------------------------------------------------------------------------
(* ChatMessagesView: HTML export.  An HTML tag the conversion inserts is one *)
(* element of the text; the contents hold no "<", so no later expression     *)
(* matches inside an inserted tag.                                          *)

\* textarea.innerHTML = text; return textarea.value -- a character reference
\* (one element here) gives way to the character it names
DecodedEntity(c) ==
    IF c = "&amp;" THEN "&"
    ELSE IF c = "&lt;" THEN "<"
    ELSE IF c = "&gt;" THEN ">"
    ELSE c

decodeHtmlEntities(text) == [k \in 1..Len(text) |-> DecodedEntity(text[k])]

\* s holds the characters of prefix from position i on
StartsWith(s, i, prefix) ==
    /\ i + Len(prefix) - 1 <= Len(s)
    /\ \A k \in 1..Len(prefix) : s[i + k - 1] = prefix[k]

\* /^prefix(.*$)/gm : a line that starts with prefix, group 1 the rest of it
RECURSIVE LinePrefixMatches(_, _, _)
LinePrefixMatches(s, i, prefix) ==
    IF i > Len(s) THEN <<>>
    ELSE LET e == SpanNotIn(s, i + Len(prefix), {"\n"})
         IN  IF AtLineStart(s, i) /\ StartsWith(s, i, prefix)
             THEN <<Match(i, e, SubSeq(s, i + Len(prefix), e), <<>>)>>
                     \o LinePrefixMatches(s, e + 1, prefix)
             ELSE LinePrefixMatches(s, i + 1, prefix)

\* /d(.*?)d/g with d the delimiter ("**", "__", "*" or "_"): the closing
\* delimiter is the first one that follows on the same line
RECURSIVE DelimitedMatches(_, _, _)
DelimitedMatches(s, i, d) ==
    IF i > Len(s) THEN <<>>
    ELSE LET n == Len(d)
             J == {j \in (i + n)..Len(s) :
                      /\ StartsWith(s, j, d)
                      /\ \A k \in (i + n)..(j - 1) : s[k] # "\n"}
             close == Least(J)
         IN  IF StartsWith(s, i, d) /\ J # {}
             THEN <<Match(i, close + n - 1, SubSeq(s, i + n, close - 1), <<>>)>>
                     \o DelimitedMatches(s, close + n, d)
             ELSE DelimitedMatches(s, i + 1, d)

Letters ==
    {"a", "b", "c", "d", "e", "f", "g", "h", "i", "j", "k", "l", "m",
     "n", "o", "p", "q", "r", "s", "t", "u", "v", "w", "x", "y", "z",
     "A", "B", "C", "D", "E", "F", "G", "H", "I", "J", "K", "L", "M",
     "N", "O", "P", "Q", "R", "S", "T", "U", "V", "W", "X", "Y", "Z"}

\* /BTBTBT([a-z]*)\n([\s\S]*?)BTBTBT/gi : group 1 the language, group 2 the code
RECURSIVE CodeBlockMatches(_, _)
CodeBlockMatches(s, i) ==
    IF i > Len(s) THEN <<>>
    ELSE LET lang == SpanIn(s, i + 3, Letters)
             close == NextFence(s, lang + 2)
         IN  IF /\ FenceAt(s, i)
                /\ lang + 1 <= Len(s) /\ s[lang + 1] = "\n"
                /\ close # 0
             THEN <<Match(i, close + 2, SubSeq(s, lang + 2, close - 1), SubSeq(s, i + 3, lang))>>
                     \o CodeBlockMatches(s, close + 3)
             ELSE CodeBlockMatches(s, i + 1)

\* /^---$/gm
RECURSIVE RuleMatches(_, _)
RuleMatches(s, i) ==
    IF i > Len(s) THEN <<>>
    ELSE IF AtLineStart(s, i) /\ StartsWith(s, i, <<"-", "-", "-">>) /\ AtLineEnd(s, i + 2)
         THEN <<Match(i, i + 2, <<>>, <<>>)>> \o RuleMatches(s, i + 3)
         ELSE RuleMatches(s, i + 1)

\* /\n\n/g
RECURSIVE ParagraphBreakMatches(_, _)
ParagraphBreakMatches(s, i) ==
    IF i > Len(s) THEN <<>>
    ELSE IF StartsWith(s, i, <<"\n", "\n">>)
         THEN <<Match(i, i + 1, <<>>, <<>>)>> \o ParagraphBreakMatches(s, i + 2)
         ELSE ParagraphBreakMatches(s, i + 1)

\* /<p><\/p>/g
RECURSIVE EmptyParagraphMatches(_, _)
EmptyParagraphMatches(s, i) ==
    IF i > Len(s) THEN <<>>
    ELSE IF StartsWith(s, i, <<"<p>", "</p>">>)
         THEN <<Match(i, i + 1, <<>>, <<>>)>> \o EmptyParagraphMatches(s, i + 2)
         ELSE EmptyParagraphMatches(s, i + 1)

\* /(<li>.*<\/li>)/s, no g flag: from the first <li> to the last </li>
ListMatches(s) ==
    LET opens == {j \in 1..Len(s) : s[j] = "<li>"}
        first == Least(opens)
        closes == {j \in 1..Len(s) : s[j] = "</li>" /\ j > first}
        last == CHOOSE x \in closes : \A y \in closes : y <= x
    IN  IF opens # {} /\ closes # {}
        THEN <<Match(first, last, SubSeq(s, first, last), <<>>)>>
        ELSE <<>>

Heading3(m) == <<"<h3>">> \o m.g1 \o <<"</h3>">>
Heading2(m) == <<"<h2>">> \o m.g1 \o <<"</h2>">>
Heading1(m) == <<"<h1>">> \o m.g1 \o <<"</h1>">>
Strong(m) == <<"<strong>">> \o m.g1 \o <<"</strong>">>
Emphasis(m) == <<"<em>">> \o m.g1 \o <<"</em>">>
Anchor(m) ==
    <<"<a href=\"">> \o m.g2 \o <<"\" target=\"_blank\" rel=\"noopener noreferrer\">">>
        \o m.g1 \o <<"</a>">>
PreCode(m) ==
    <<"<pre><code class=\"language-">> \o m.g2 \o <<"\">">> \o m.g1 \o <<"</code></pre>">>
InlineCode(m) == <<"<code>">> \o m.g1 \o <<"</code>">>
ListItem(m) == <<"<li>">> \o m.g1 \o <<"</li>">>
List(m) == <<"<ul>">> \o m.g1 \o <<"</ul>">>
BlockQuote(m) == <<"<blockquote>">> \o m.g1 \o <<"</blockquote>">>
Rule(m) == <<"<hr>">>
ParagraphBreak(m) == <<"</p>", "<p>">>

\* the statements of markdownToHtml after let html = markdown, in their order
HtmlStep(html, step) ==
    CASE step = 1 -> Replace(html, LinePrefixMatches(html, 1, <<"#", "#", "#", " ">>), Heading3)
      [] step = 2 -> Replace(html, LinePrefixMatches(html, 1, <<"#", "#", " ">>), Heading2)
      [] step = 3 -> Replace(html, LinePrefixMatches(html, 1, <<"#", " ">>), Heading1)
      [] step = 4 -> Replace(html, DelimitedMatches(html, 1, <<"*", "*">>), Strong)
      [] step = 5 -> Replace(html, DelimitedMatches(html, 1, <<"_", "_">>), Strong)
      [] step = 6 -> Replace(html, DelimitedMatches(html, 1, <<"*">>), Emphasis)
      [] step = 7 -> Replace(html, DelimitedMatches(html, 1, <<"_">>), Emphasis)
      [] step = 8 -> Replace(html, LinkMatches(html, 1), Anchor)
      [] step = 9 -> Replace(html, CodeBlockMatches(html, 1), PreCode)
      [] step = 10 -> Replace(html, InlineCodeMatches(html, 1), InlineCode)
      [] step = 11 -> Replace(html, LinePrefixMatches(html, 1, <<"*", " ">>), ListItem)
      [] step = 12 -> Replace(html, LinePrefixMatches(html, 1, <<"-", " ">>), ListItem)
      [] step = 13 -> Replace(html, ListMatches(html), List)
      [] step = 14 -> Replace(html, LinePrefixMatches(html, 1, <<">", " ">>), BlockQuote)
      [] step = 15 -> Replace(html, RuleMatches(html, 1), Rule)
      [] step = 16 -> Replace(html, ParagraphBreakMatches(html, 1), ParagraphBreak)
      [] step = 17 -> <<"<p>">> \o html \o <<"</p>">>
      [] step = 18 -> Replace(html, EmptyParagraphMatches(html, 1), Nothing)

\* the values of html so far, and the one the statement step gives it
HtmlAssigned(values, step) == Append(values, HtmlStep(values[step], step))

\* the values html takes: markdown, then one value per statement up to last
RECURSIVE HtmlValues(_, _)
HtmlValues(markdown, last) ==
    IF last = 0 THEN <<markdown>> ELSE HtmlAssigned(HtmlValues(markdown, last - 1), last)

\* the substitutions of markdownToHtml up to the paragraph step
HtmlBlocks(markdown) == HtmlValues(markdown, 15)[16]

\* variant: the empty paragraphs are left in
markdownToHtmlKeepsEmpty(markdown) == HtmlValues(markdown, 17)[18]

\* markdownToHtml: return html, after all of its statements
markdownToHtml(markdown) == HtmlValues(markdown, 18)[19]

\* the characters of a message id
IdChars(id) == IF id = "m1" THEN <<"m", "1">> ELSE IF id = "m2" THEN <<"m", "2">> ELSE <<>>

\* (messageId || "response").slice(0, 8)
ShortId(id) ==
    IF IdChars(id) = <<>> THEN Slice0(<<"r", "e", "s", "p", "o", "n", "s", "e">>, 8)
    ELSE Slice0(IdChars(id), 8)

\* the document around the converted content: the themed page down to
\* <div class="content">, and from the footer on
HtmlHead == "<!DOCTYPE html>...<div class=\"content\">"
HtmlFoot == "</div><div class=\"footer\">...</html>"

DownloadHtmlError == "Failed to download HTML response:"

\* try { ... markdownToHtml(decodeHtmlEntities(content || "")) ... link.click() }
\* catch (err) { console.error("Failed to download HTML response:", err) }
\* throws: the Blob / object URL / anchor click fails
handleDownloadHtml(content, messageId) ==
    /\ uncaught = "none"
    /\ \E throws \in BOOLEAN :
          IF throws
          THEN /\ lastCall' = Call("downloadHtmlFailed", content, messageId)
               /\ console' = console \cup {DownloadHtmlError}
               /\ UNCHANGED download
          ELSE /\ lastCall' = Call("downloadHtml", content, messageId)
               /\ download' =
                     [kind |-> "html",
                      name |-> <<"epc-response-">> \o ShortId(messageId) \o <<".html">>,
                      body |-> <<HtmlHead>> \o markdownToHtml(decodeHtmlEntities(content))
                                  \o <<HtmlFoot>>]
               /\ UNCHANGED console

----------------------------------------------------------------------------
(* ChatMessagesView: PDF export.  handleDownloadPdf runs to completion; its  *)
(* two loops are unfolded into one step per content line and one per footer, *)
(* pdfIndex being the i of the loop that runs.  Lengths are in points (pt);  *)
(* the page height alone is not a whole number of points and is kept in      *)
(* hundredths.                                                               *)

\* const margin = 50
margin == 50
\* const lineHeight = 16
lineHeight == 16
\* doc.internal.pageSize.getHeight() of the a4 page in pt, times 100 (841.89)
pageHeight == 84189

UrlSchemes == {"http://", "https://"}

\* \[([^\]]+)\]\(https?:\/\/[^\)]+\) tried at position i
CitationAt(s, i) ==
    LET j == IndexFrom(s, i + 1, {"]"})
        k == IndexFrom(s, j + 3, {")"})
    IN  IF /\ i <= Len(s) /\ s[i] = "["
           /\ j > i + 1
           /\ j + 2 <= Len(s) /\ s[j + 1] = "(" /\ s[j + 2] \in UrlSchemes
           /\ k > j + 3
        THEN Match(i, k, SubSeq(s, i + 1, j - 1), SubSeq(s, j + 2, k - 1))
        ELSE Match(0, 0, <<>>, <<>>)

\* /\[([^\]]+)\]\(https?:\/\/[^\)]+\)/g
RECURSIVE CitationMatches(_, _)
CitationMatches(s, i) ==
    IF i > Len(s) THEN <<>>
    ELSE IF CitationAt(s, i).from # 0
         THEN <<CitationAt(s, i)>> \o CitationMatches(s, CitationAt(s, i).to + 1)
         ELSE CitationMatches(s, i + 1)

\* /https?:\/\/\S+/g
RECURSIVE BareUrlMatches(_, _)
BareUrlMatches(s, i) ==
    IF i > Len(s) THEN <<>>
    ELSE LET e == SpanNotIn(s, i + 1, WhiteSpace)
         IN  IF s[i] \in UrlSchemes /\ e > i
             THEN <<Match(i, e, <<>>, <<>>)>> \o BareUrlMatches(s, e + 1)
             ELSE BareUrlMatches(s, i + 1)

\* /\[\]/g and /\(\)/g
RECURSIVE PairMatches(_, _, _)
PairMatches(s, i, pair) ==
    IF i > Len(s) THEN <<>>
    ELSE IF StartsWith(s, i, pair)
         THEN <<Match(i, i + 1, <<>>, <<>>)>> \o PairMatches(s, i + 2, pair)
         ELSE PairMatches(s, i + 1, pair)

\* the statements of cleanText after let cleaned = text, in their order
CleanStep(cleaned, step) ==
    CASE step = 1 -> Replace(cleaned, CitationMatches(cleaned, 1), Nothing)
      [] step = 2 -> Replace(cleaned, BareUrlMatches(cleaned, 1), Nothing)
      [] step = 3 -> Replace(cleaned, DelimitedMatches(cleaned, 1, <<"*", "*">>), Group1)
      [] step = 4 -> Replace(cleaned, DelimitedMatches(cleaned, 1, <<"_", "_">>), Group1)
      [] step = 5 -> Replace(cleaned, DelimitedMatches(cleaned, 1, <<"*">>), Group1)
      [] step = 6 -> Replace(cleaned, DelimitedMatches(cleaned, 1, <<"_">>), Group1)
      [] step = 7 -> Replace(cleaned, InlineCodeMatches(cleaned, 1), Group1)
      [] step = 8 -> Replace(cleaned, PairMatches(cleaned, 1, <<"[", "]">>), Nothing)
      [] step = 9 -> Replace(cleaned, PairMatches(cleaned, 1, <<"(", ")">>), Nothing)
      [] step = 10 -> Replace(cleaned, WhiteSpaceMatches(cleaned, 1), OneSpace)
      [] step = 11 -> Trim(cleaned)

RECURSIVE CleanSteps(_, _, _)
CleanSteps(cleaned, step, last) ==
    IF step > last THEN cleaned ELSE CleanSteps(CleanStep(cleaned, step), step + 1, last)

\* the statements of cleanText that follow the citation links
CleanAfterCitations(a) == CleanSteps(a, 2, 11)

\* cleanText: all of its statements
cleanText(text) == CleanSteps(text, 1, 11)

Digits == {"0", "1", "2", "3", "4", "5", "6", "7", "8", "9"}
Bullets == {"*", "-", "U+2022"}

\* a drawing call of the content pass: doc.text of a piece of cleaned text
\* ("text") or of the number of a list item ("number"), doc.circle, doc.line;
\* y is the height it is given, page the page it lands on
Draw(op, y, page, text) == [op |-> op, y |-> y, page |-> page, text |-> text]

\* cursorY is past the line that leaves `reserve` pt above the bottom margin:
\* cursorY > pageHeight - margin - reserve
PastLimit(y, reserve) == y * 100 > pageHeight - (margin + reserve) * 100

\* pieces.forEach((piece) => { if (cursorY > pageHeight - margin - reserve)
\*   { doc.addPage(); cursorY = margin }; doc.text(piece, x, cursorY);
\*   cursorY += advance })
\* for the n pieces doc.splitTextToSize made of text; at = [y, pages, drawn]
RECURSIVE DrawPieces(_, _, _, _, _)
DrawPieces(at, n, text, reserve, advance) ==
    IF n = 0 THEN at
    ELSE LET break == PastLimit(at.y, reserve)
             y == IF break THEN margin ELSE at.y
             page == IF break THEN at.pages + 1 ELSE at.pages
         IN  DrawPieces([y |-> y + advance, pages |-> page,
                         drawn |-> Append(at.drawn, Draw("text", y, page, text))],
                        n - 1, text, reserve, advance)

\* the kind a trimmed line is given by the chain of tests in the loop
LineKind(line) ==
    IF line = <<>> THEN "blank"
    ELSE IF StartsWith(line, 1, <<"#", " ">>) THEN "h1"
    ELSE IF StartsWith(line, 1, <<"#", "#", " ">>) THEN "h2"
    ELSE IF StartsWith(line, 1, <<"#", "#", "#", " ">>) THEN "h3"
    ELSE IF Len(line) >= 2 /\ line[1] \in Bullets /\ line[2] = " " THEN "bullet"
    ELSE IF LET d == SpanIn(line, 1, Digits)
            IN  d >= 1 /\ StartsWith(line, d + 1, <<".", " ">>) THEN "numbered"
    ELSE "paragraph"

\* the text of the line handed to cleanText
LineText(line) ==
    LET kind == LineKind(line)
    IN  IF kind = "h1" \/ kind = "bullet" THEN SubSeq(line, 3, Len(line))
        ELSE IF kind = "h2" THEN SubSeq(line, 4, Len(line))
        ELSE IF kind = "h3" THEN SubSeq(line, 5, Len(line))
        ELSE IF kind = "numbered" THEN SubSeq(line, SpanIn(line, 1, Digits) + 3, Len(line))
        ELSE line

\* if (cursorY > 130) cursorY += gap
HeadingGap(y, gap) == IF y > 130 THEN y + gap ELSE y

\* one pass of the loop body over a trimmed line: [y, pages, drawn] after it
LineDrawn(line, y, pages, n) ==
    LET kind == LineKind(line)
        text == cleanText(LineText(line))
        start == [y |-> y, pages |-> pages, drawn |-> <<>>]
    IN  IF kind = "blank" THEN [start EXCEPT !.y = y + 12]
        ELSE IF kind = "h1" THEN
            LET at == DrawPieces([start EXCEPT !.y = HeadingGap(y, 30)], n, text, 40, 22)
            IN  [at EXCEPT !.drawn = Append(at.drawn, Draw("line", at.y + 2, at.pages, <<>>)),
                           !.y = at.y + 25]
        ELSE IF kind = "h2" THEN
            LET at == DrawPieces([start EXCEPT !.y = HeadingGap(y, 24)], n, text, 40, 18)
            IN  [at EXCEPT !.drawn = Append(at.drawn, Draw("line", at.y + 2, at.pages, <<>>)),
                           !.y = at.y + 20]
        ELSE IF kind = "h3" THEN
            LET at == DrawPieces([start EXCEPT !.y = HeadingGap(y, 18)], n, text, 40, 16)
            IN  [at EXCEPT !.y = at.y + 16]
        ELSE IF kind = "bullet" THEN
            LET at == DrawPieces([start EXCEPT !.drawn = <<Draw("circle", y - 3, pages, <<>>)>>],
                                 n, text, 30, lineHeight)
            IN  [at EXCEPT !.y = at.y + 8]
        ELSE IF kind = "numbered" THEN
            LET number == SubSeq(line, 1, SpanIn(line, 1, Digits)) \o <<".">>
                at == DrawPieces([start EXCEPT !.drawn = <<Draw("number", y, pages, number)>>],
                                 n, text, 30, lineHeight)
            IN  [at EXCEPT !.y = at.y + 8]
        ELSE IF Len(text) < 3 THEN start
        ELSE LET at == DrawPieces(start, n, text, 30, lineHeight)
             IN  [at EXCEPT !.y = at.y + 10]

\* /\n/ of split('\n')
NewlineMatches(s) ==
    LET at == SelectSeq([k \in 1..Len(s) |-> k], LAMBDA k : s[k] = "\n")
    IN  [j \in 1..Len(at) |-> Match(at[j], at[j], <<>>, <<>>)]

\* const lines = safeContent.split('\n'), safeContent being
\* content.normalize('NFC').replace(/[\u{1F300}-\u{1FAFF}]/gu, '').trim();
\* the texts here are in normal form already
PdfLinesOf(content) ==
    LET safeContent == Trim(Without(content, EmojiPictographs))
    IN  Split(safeContent, NewlineMatches(safeContent))

NoFooters == [p \in {} |-> <<>>]

\* handleDownloadPdf up to the loop: new jsPDF (one page), the header band and
\* titles at fixed heights, cursorY = 110, let i = 0 (the lines count from 1)
PdfBegin(content, messageId) ==
    /\ uncaught = "none"
    /\ pdfPhase \in {"idle", "saved", "failed"}
    /\ pdfPhase' = "content"
    /\ pdfPages' = 1
    /\ cursorY' = 110
    /\ pdfDrawn' = <<>>
    /\ pdfFooters' = NoFooters
    /\ pdfLines' = PdfLinesOf(content)
    /\ pdfIndex' = 1
    /\ lastCall' = Call("pdfBegin", content, messageId)
    /\ UNCHANGED <<download, console>>

\* one pass of for (let i = 0; i < lines.length; i++): the line lines[i].trim(),
\* which doc.splitTextToSize breaks into n pieces (one piece for an empty text)
PdfLine(n) ==
    LET line == Trim(pdfLines[pdfIndex])
        after == LineDrawn(line, cursorY, pdfPages, n)
    IN  /\ pdfPhase = "content"
        /\ pdfIndex <= Len(pdfLines)
        /\ n = 1 \/ cleanText(LineText(line)) # <<>>
        /\ cursorY' = after.y
        /\ pdfPages' = after.pages
        /\ pdfDrawn' = after.drawn
        /\ pdfIndex' = pdfIndex + 1
        /\ lastCall' = Call("pdfLine", lastCall.content, lastCall.id)
        /\ UNCHANGED <<pdfPhase, pdfFooters, pdfLines, download, console>>

\* the pages the footer loop runs over: doc.internal.pages.length - 1, the
\* pages array of jsPDF keeping its entry 0 unused
TotalPages(pages) == (pages + 1) - 1

\* variant: for (let i = 2; ...), the first page is left without a footer
PdfEndOfContentSkipsFirstPage ==
    /\ pdfPhase = "content"
    /\ pdfIndex > Len(pdfLines)
    /\ pdfPhase' = "footer"
    /\ pdfIndex' = 2
    /\ pdfDrawn' = <<>>
    /\ lastCall' = Call("pdfEndOfContent", lastCall.content, lastCall.id)
    /\ UNCHANGED <<cursorY, pdfPages, pdfFooters, pdfLines, download, console>>

\* the loop over the lines ends; const totalPages = doc.internal.pages.length - 1;
\* let i = 1
PdfEndOfContent ==
    /\ pdfPhase = "content"
    /\ pdfIndex > Len(pdfLines)
    /\ pdfPhase' = "footer"
    /\ pdfIndex' = 1
    /\ pdfDrawn' = <<>>
    /\ lastCall' = Call("pdfEndOfContent", lastCall.content, lastCall.id)
    /\ UNCHANGED <<cursorY, pdfPages, pdfFooters, pdfLines, download, console>>

\* one pass of for (let i = 1; i <= totalPages; i++): doc.setPage(i);
\* doc.text("... Page i of totalPages", pageWidth / 2, pageHeight - 20)
PdfFooter ==
    /\ pdfPhase = "footer"
    /\ pdfIndex <= TotalPages(pdfPages)
    /\ pdfFooters' =
          Put(pdfFooters, pdfIndex,
              (IF Has(pdfFooters, pdfIndex) THEN pdfFooters[pdfIndex] ELSE <<>>)
                 \o <<[page |-> pdfIndex, of |-> TotalPages(pdfPages)]>>)
    /\ pdfIndex' = pdfIndex + 1
    /\ lastCall' = Call("pdfFooter", lastCall.content, lastCall.id)
    /\ UNCHANGED <<pdfPhase, cursorY, pdfPages, pdfDrawn, pdfLines, download, console>>

DownloadPdfError == "Failed to download PDF response:"

\* the footer loop ends: doc.save("epc-response-" + shortId + ".pdf"), inside
\* the try of the handler; throws: the save fails
PdfSave ==
    /\ pdfPhase = "footer"
    /\ pdfIndex > TotalPages(pdfPages)
    /\ \E throws \in BOOLEAN :
          IF throws
          THEN /\ pdfPhase' = "failed"
               /\ console' = console \cup {DownloadPdfError}
               /\ lastCall' = Call("pdfSaveFailed", lastCall.content, lastCall.id)
               /\ UNCHANGED download
          ELSE /\ pdfPhase' = "saved"
               /\ download' =
                     [kind |-> "pdf",
                      name |-> <<"epc-response-">> \o ShortId(lastCall.id) \o <<".pdf">>,
                      body |-> pdfFooters]
               /\ lastCall' = Call("pdfSave", lastCall.content, lastCall.id)
               /\ UNCHANGED console
    /\ UNCHANGED <<cursorY, pdfPages, pdfDrawn, pdfFooters, pdfLines, pdfIndex>>

----------------------------------------------------------------------------
(* ChatMessagesView: what the view renders for its messages *)

\* the JavaScript value undefined (an optional field that is missing, a
\* property that is not there)
Undefined == "undefined"

\* const agentProfiles: Record<string, { name; image; color }> = { ... }: the
\* entries grouped by the profile they give
agentProfiles ==
    { [name |-> "Nexus", image |-> "NexusImg", keys |->
          {"nexus", "Nexus", "nexus_agent", "Nexus_agent", "root_orchestrator_agent",
           "root_agent", "orchestrator_agent", "orchestrator", "main_agent",
           "coordinator_agent", "chief_agent", "report_composer_with_citations",
           "report_composer", "final_report_agent", "interactive_planner_agent",
           "planner_agent", "planning_agent"}],
      [name |-> "Atlas", image |-> "AtlasImg", keys |->
          {"atlas", "Atlas", "atlas_agent", "Atlas_agent", "nbot_agent", "nbot",
           "nbot_specialist", "nbot_analysis_agent", "performance_agent",
           "analytics_agent", "kpi_agent", "trend_agent", "overtime_agent",
           "non_billable_agent"}],
      [name |-> "Maestro", image |-> "MaestroImg", keys |->
          {"maestro", "Maestro", "maestro_agent", "Maestro_agent", "schedule_agent",
           "scheduling_agent", "scheduler_agent", "capacity_agent", "fte_agent",
           "optimization_agent", "shift_agent", "schedule_optimization_agent"}],
      [name |-> "Pulse", image |-> "PulseImg", keys |->
          {"pulse", "Pulse", "pulse_agent", "Pulse_agent", "comms_agent",
           "communication_agent", "communications_agent", "email_agent", "sms_agent",
           "escalation_agent"}],
      [name |-> "Aegis", image |-> "AegisImg", keys |->
          {"aegis", "Aegis", "aegis_agent", "Aegis_agent", "training_agent",
           "training_compliance_agent", "compliance_agent", "certification_agent",
           "audit_agent", "training_specialist"}],
      [name |-> "Sage", image |-> "SageImg", keys |->
          {"sage", "Sage", "sage_agent", "Sage_agent", "research_agent",
           "research_specialist", "strategic_agent", "intel_agent", "foresight_agent",
           "analyst_agent"}],
      [name |-> "Lexi", image |-> "LexiImg", keys |->
          {"lexi", "Lexi", "lexi_agent", "Lexi_agent", "rag_agent", "knowledge_agent",
           "policy_agent", "sop_agent", "document_agent", "team_sme_agent", "team_sme",
           "sme_agent"}],
      [name |-> "Scout", image |-> "ScoutImg", keys |->
          {"scout", "Scout", "scout_agent", "Scout_agent", "market_agent",
           "market_intelligence_agent", "demand_agent", "seasonality_agent",
           "market_trend_agent", "external_agent"}],
      [name |-> "Gears", image |-> "GearsImg", keys |->
          {"gears", "Gears", "gears_agent", "Gears_agent", "workflow_agent",
           "automation_agent", "task_agent", "integration_agent",
           "scheduled_task_agent"}],
      [name |-> "Sentinel", image |-> "SentinelImg", keys |->
          {"sentinel", "Sentinel", "sentinel_agent", "Sentinel_agent",
           "monitoring_agent", "alerts_agent", "alert_agent", "anomaly_agent",
           "threshold_agent", "watchlist_agent", "sla_agent"}],
      [name |-> "ACE Agent", image |-> "NexusImg", keys |->
          {"ace_agent", "ACE_agent", "epc_agent", "EPC Agent", "default"}] }

\* what an object literal inherits from Object.prototype: the methods, each a
\* function whose name property is its own name, the constructor, whose name
\* is "Object", and __proto__, the prototype object, which has no name; none
\* of them has an image property
ObjectPrototype ==
    { [key |-> "constructor", name |-> "Object"],
      [key |-> "toString", name |-> "toString"],
      [key |-> "toLocaleString", name |-> "toLocaleString"],
      [key |-> "valueOf", name |-> "valueOf"],
      [key |-> "hasOwnProperty", name |-> "hasOwnProperty"],
      [key |-> "isPrototypeOf", name |-> "isPrototypeOf"],
      [key |-> "propertyIsEnumerable", name |-> "propertyIsEnumerable"],
      [key |-> "__proto__", name |-> Undefined] }

\* the keys written in the dictionary
ProfileKeys == UNION {p.keys : p \in agentProfiles}

\* agentProfiles[key]: the own property, else the inherited one, else undefined
ProfileOf(key) ==
    IF key \in ProfileKeys
    THEN LET p == CHOOSE p \in agentProfiles : key \in p.keys
         IN  [truthy |-> TRUE, name |-> p.name, image |-> p.image]
    ELSE IF \E q \in ObjectPrototype : q.key = key
    THEN LET q == CHOOSE q \in ObjectPrototype : q.key = key
         IN  [truthy |-> TRUE, name |-> q.name, image |-> Undefined]
    ELSE [truthy |-> FALSE, name |-> Undefined, image |-> Undefined]

\* the avatar and the name shown when no profile is found
FallbackIdentity == [avatar |-> "U+26A1", name |-> "ACE Analysis"]

\* message.agent && agentProfiles[message.agent]
\*   ? <img src={agentProfiles[message.agent].image} /> : <div>U+26A1</div>, and
\*   ? agentProfiles[message.agent].name : 'ACE Analysis'
AgentIdentity(agent) ==
    IF agent # Undefined /\ agent # "" /\ ProfileOf(agent).truthy
    THEN [avatar |-> ProfileOf(agent).image, name |-> ProfileOf(agent).name]
    ELSE FallbackIdentity

Message(id, type, agent) == [id |-> id, type |-> type, agent |-> agent]

\* messages.slice().reverse().find(m => m.type === "ai")?.id
RECURSIVE lastAiMessageId(_)
lastAiMessageId(list) ==
    IF list = <<>> THEN Undefined
    ELSE IF list[Len(list)].type = "ai" THEN list[Len(list)].id
    ELSE lastAiMessageId(SubSeq(list, 1, Len(list) - 1))

\* message.type === "ai" ? (messageEvents.get(message.id) || []) : []
eventsForMessage(msg, events) == IF msg.type = "ai" THEN events[msg.id] ELSE <<>>

\* message.type === "ai" && message.id === lastAiMessageId
isCurrentMessageTheLastAiMessage(msg, list) ==
    msg.type = "ai" /\ msg.id = lastAiMessageId(list)

\* no timeline is rendered
NoTimeline == [shown |-> FALSE, events |-> <<>>]

\* variant: the timeline is rendered for the last AI message that has events
\* ({isCurrentMessageTheLastAiMessage && eventsForMessage.length > 0 &&
\*   <ActivityTimeline processedEvents={eventsForMessage} />})
MessageTimelineOnLastAi(msg, list, events) ==
    IF isCurrentMessageTheLastAiMessage(msg, list) /\ eventsForMessage(msg, events) # <<>>
    THEN [shown |-> TRUE, events |-> eventsForMessage(msg, events)]
    ELSE NoTimeline

\* the body of messages.map: eventsForMessage and
\* isCurrentMessageTheLastAiMessage are computed and the bubble that is
\* returned has no ActivityTimeline in it
MessageTimeline(msg, list, events) == NoTimeline

\* the two "Thinking..." blocks after the message list:
\* isLoading && !lastAiMessage && messages.some(m => m.type === 'human'), and
\* isLoading && messages.length > 0 && messages[messages.length - 1].type === 'human'
ThinkingIndicators(list, loading) ==
    (IF loading /\ lastAiMessageId(list) = Undefined
        /\ \E i \in 1..Len(list) : list[i].type = "human"
     THEN 1 ELSE 0)
    + (IF loading /\ Len(list) > 0 /\ list[Len(list)].type = "human" THEN 1 ELSE 0)

\* the badge of the Summary button:
\* {pinnedMessages.length > 0 && <span>{pinnedMessages.length}</span>}
PinnedBadge(pinned) ==
    IF Len(pinned) > 0 THEN [shown |-> TRUE, count |-> Len(pinned)]
    ELSE [shown |-> FALSE, count |-> 0]

\* messages.find(m => m.id === msgId) gives an AI message
IsAiMessage(list, msgId) ==
    \E i \in 1..Len(list) :
        /\ list[i].id = msgId
        /\ list[i].type = "ai"
        /\ \A j \in 1..(i - 1) : list[j].id # msgId

\* the entries of the session-summary panel: pinnedMessages.map((msgId) => {
\*   const msg = messages.find(m => m.id === msgId);
\*   if (!msg || msg.type !== 'ai') return null; ... })
PinnedPanel(pinned, list) == SelectSeq(pinned, LAMBDA msgId : IsAiMessage(list, msgId))

\* nothing on screen: the render threw
NoChatView ==
    [identities |-> <<>>, timelines |-> <<>>, thinking |-> 0,
     badge |-> [shown |-> FALSE, count |-> 0], panel |-> <<>>]

\* one render of the view
ChatView(list, events, loading, pinned, thrown) ==
    IF thrown # "none" THEN NoChatView
    ELSE [identities |->
              [i \in 1..Len(list) |->
                  IF list[i].type = "ai" THEN AgentIdentity(list[i].agent)
                  ELSE [avatar |-> Undefined, name |-> Undefined]],
          timelines |-> [i \in 1..Len(list) |-> MessageTimeline(list[i], list, events)],
          thinking |-> ThinkingIndicators(list, loading),
          badge |-> PinnedBadge(pinned.v),
          panel |-> PinnedPanel(pinned.v, list)]

\* the ids the hosting page gives to its messages
ViewIds == {"m1", "m2"}

\* the agent identifiers the hosting page passes: keys of the dictionary,
\* keys in another case or with a blank around them, a name of no agent, the
\* empty string, no identifier, names of Object.prototype properties
AgentSamples ==
    { "nexus", "Nexus", "NEXUS", " nexus", "nexus ", "research_agent", "EPC Agent",
      "default", "unknown_agent", "", Undefined, "constructor", "toString", "__proto__" }

NoEvents == [id \in ViewIds |-> <<>>]

\* the props and the state of the three components before the hosting page
\* has passed anything
InitViews ==
    /\ messageList = <<>>
    /\ messageEvents = NoEvents
    /\ chatView = ChatView(messageList, messageEvents, isLoading, pinnedMessages, uncaught)
    /\ processedEvents = <<>>
    /\ timeline = <<>>
    /\ welcomeMessage = <<>>
    /\ handleSubmitCalls = <<>>

\* a step of the chat view: React renders the view again with the new props
\* and state
ViewStep(A) ==
    /\ A
    /\ chatView' = ChatView(messageList', messageEvents', isLoading', pinnedMessages', uncaught')
    /\ UNCHANGED <<histVars, messages, insightVars, exportVars, lastCall, pdfVars>>
    /\ UNCHANGED <<processedEvents, timeline, welcomeMessage, handleSubmitCalls>>

\* the hosting page adds a message to the messages prop
HostAppends(msg) ==
    /\ Len(messageList) < MaxMessages
    /\ \A i \in 1..Len(messageList) : messageList[i].id # msg.id
    /\ messageList' = Append(messageList, msg)
    /\ UNCHANGED <<messageEvents, formVars, annotVars>>

\* the hosting page records a processed event of a message
HostEvent(id, title) ==
    /\ Len(messageEvents[id]) < MaxEvents
    /\ messageEvents' = [messageEvents EXCEPT ![id] = Append(@, title)]
    /\ UNCHANGED <<messageList, formVars, annotVars>>

\* the hosting page starts or ends a request
HostLoading(b) ==
    /\ SetLoading(b)
    /\ UNCHANGED <<messageList, messageEvents, annotVars>>

\* the Pin button of an AI message on screen
PinClick(messageId) ==
    /\ IsAiMessage(messageList, messageId)
    /\ handleTogglePin(messageId)
    /\ UNCHANGED <<messageList, messageEvents, formVars>>

\* "Clear All Pins" of the session-summary panel
ClearPinsClick ==
    /\ ClearAllPins
    /\ UNCHANGED <<messageList, messageEvents, formVars>>

\* window.location.reload(): the pins are read again from the storage and the
\* hosting page starts a conversation with no message in it
ViewReload ==
    /\ handleNewChat
    /\ messageList' = <<>>
    /\ messageEvents' = NoEvents
    /\ isLoading' = FALSE
    /\ UNCHANGED <<inputValue, onSubmitCalls, lastEvent>>

----------------------------------------------------------------------------
(* ActivityTimeline: the icon of an entry.  A title is a sequence of words and *)
(* blanks, a word being one element.                                          *)

\* String.prototype.toLowerCase, word by word
LowerCaseWords ==
    { <<"Thinking", "thinking">>, <<"THINKING", "thinking">>,
      <<"Research", "research">>, <<"RESEARCH", "research">>,
      <<"Function", "function">>, <<"Call", "call">>, <<"Response", "response">>,
      <<"Generating", "generating">>, <<"Reflection", "reflection">>,
      <<"Finalizing", "finalizing">>, <<"Retrieved", "retrieved">>,
      <<"Sources", "sources">> }

toLowerCase(title) ==
    [i \in 1..Len(title) |->
        IF \E p \in LowerCaseWords : p[1] = title[i]
        THEN (CHOOSE p \in LowerCaseWords : p[1] = title[i])[2]
        ELSE title[i]]

\* String.prototype.includes
StringIncludes(text, words) ==
    \E k \in 0..(Len(text) - Len(words)) : SubSeq(text, k + 1, k + Len(words)) = words

Icon(icon, color) == [icon |-> icon, color |-> color]
Spinner == Icon("Loader2 animate-spin", "cyan")
SearchIcon == Icon("Search", "cyan")

\* variant: the title is compared as it is written (no toLowerCase)
getEventIconCaseSensitive(title, index, loading, events) ==
    IF index = 0 /\ loading /\ Len(events) = 0 THEN Spinner
    ELSE IF StringIncludes(title, <<"function", " ", "call">>) THEN Icon("Activity", "blue")
    ELSE IF StringIncludes(title, <<"function", " ", "response">>)
    THEN Icon("Activity", "green")
    ELSE IF StringIncludes(title, <<"generating">>) THEN Icon("TextSearch", "purple")
    ELSE IF StringIncludes(title, <<"thinking">>) THEN Spinner
    ELSE IF StringIncludes(title, <<"reflection">>) THEN Icon("Brain", "purple")
    ELSE IF StringIncludes(title, <<"research">>) THEN SearchIcon
    ELSE IF StringIncludes(title, <<"finalizing">>) THEN Icon("Pen", "green")
    ELSE IF StringIncludes(title, <<"retrieved", " ", "sources">>) THEN Icon("Link", "amber")
    ELSE Icon("Activity", "cyan")

\* getEventIcon(title, index), with the isLoading and processedEvents of the
\* component it closes over
getEventIcon(title, index, loading, events) ==
    IF index = 0 /\ loading /\ Len(events) = 0 THEN Spinner
    ELSE IF StringIncludes(toLowerCase(title), <<"function", " ", "call">>)
    THEN Icon("Activity", "blue")
    ELSE IF StringIncludes(toLowerCase(title), <<"function", " ", "response">>)
    THEN Icon("Activity", "green")
    ELSE IF StringIncludes(toLowerCase(title), <<"generating">>)
    THEN Icon("TextSearch", "purple")
    ELSE IF StringIncludes(toLowerCase(title), <<"thinking">>) THEN Spinner
    ELSE IF StringIncludes(toLowerCase(title), <<"reflection">>) THEN Icon("Brain", "purple")
    ELSE IF StringIncludes(toLowerCase(title), <<"research">>) THEN SearchIcon
    ELSE IF StringIncludes(toLowerCase(title), <<"finalizing">>) THEN Icon("Pen", "green")
    ELSE IF StringIncludes(toLowerCase(title), <<"retrieved", " ", "sources">>)
    THEN Icon("Link", "amber")
    ELSE Icon("Activity", "cyan")

\* processedEvents.map((eventItem, index) => ... getEventIcon(eventItem.title, index))
TimelineIcons(events, loading) ==
    [i \in 1..Len(events) |-> getEventIcon(events[i], i - 1, loading, events)]

\* a step of the timeline: React renders it again with the new props
TimelineStep(A) ==
    /\ A
    /\ timeline' = TimelineIcons(processedEvents', isLoading')
    /\ UNCHANGED <<annotVars, histVars, messages, insightVars, exportVars, lastCall, pdfVars>>
    /\ UNCHANGED <<messageList, messageEvents, chatView, welcomeMessage, handleSubmitCalls>>

\* the hosting page passes one more processed event
TimelineEvent(title) ==
    /\ Len(processedEvents) < MaxEvents
    /\ processedEvents' = Append(processedEvents, title)
    /\ UNCHANGED formVars

\* the hosting page starts or ends a request
TimelineLoading(b) ==
    /\ SetLoading(b)
    /\ UNCHANGED processedEvents

----------------------------------------------------------------------------
(* WelcomeScreen *)

\* what an <input> line can hold: no line break
WelcomeTexts == UNION {[1..n -> {"a", " "}] : n \in 0..MaxInputLen}

\* onChange={(e) => setMessage(e.target.value)}
setMessage(value) ==
    /\ welcomeMessage' = value
    /\ lastEvent' = Event("change", FALSE, 0)
    /\ UNCHANGED <<isLoading, handleSubmitCalls>>

\* if (!message.trim()) return; handleSubmit(message); setMessage('')
\* a call is recorded with the isLoading of the render it was made in
handleChatSubmit(kind) ==
    /\ IF Trim(welcomeMessage) = <<>>
       THEN /\ UNCHANGED <<welcomeMessage, handleSubmitCalls>>
            /\ lastEvent' = Event(kind, FALSE, Len(welcomeMessage))
       ELSE /\ Len(handleSubmitCalls) < MaxCalls
            /\ handleSubmitCalls' =
                  Append(handleSubmitCalls, [query |-> welcomeMessage, loading |-> isLoading])
            /\ welcomeMessage' = <<>>
            /\ lastEvent' = Event(kind, TRUE, Len(welcomeMessage))
    /\ UNCHANGED isLoading

\* onKeyPress: if (e.key === 'Enter' && !e.shiftKey) { e.preventDefault();
\* handleChatSubmit() }; any other key is left to the input
onKeyPress(key, shiftKey) ==
    IF key = "Enter" /\ ~shiftKey
    THEN handleChatSubmit("enter")
    ELSE /\ lastEvent' = Event("key", FALSE, 0)
         /\ UNCHANGED <<welcomeMessage, isLoading, handleSubmitCalls>>

\* <button onClick={handleChatSubmit} disabled={isLoading || !message.trim()}>:
\* a disabled button dispatches no click
SubmitButtonClick ==
    IF isLoading \/ Trim(welcomeMessage) = <<>>
    THEN /\ lastEvent' = Event("click", FALSE, Len(welcomeMessage))
         /\ UNCHANGED <<welcomeMessage, isLoading, handleSubmitCalls>>
    ELSE handleChatSubmit("click")

\* the hosting page changes the isLoading prop
WelcomeLoading(b) ==
    /\ SetLoading(b)
    /\ UNCHANGED <<welcomeMessage, handleSubmitCalls>>

\* a step of the welcome screen
WelcomeStep(A) ==
    /\ A
    /\ UNCHANGED <<inputValue, onSubmitCalls>>
    /\ UNCHANGED <<annotVars, histVars, messages, insightVars, exportVars, lastCall, pdfVars>>
    /\ UNCHANGED <<messageList, messageEvents, chatView, processedEvents, timeline>>

----------------------------------------------------------------------------
(* Message contents *)

RECURSIVE Flatten(_)
Flatten(parts) == IF parts = <<>> THEN <<>> ELSE Head(parts) \o Flatten(Tail(parts))

\* the texts made of at most MaxFragments fragments
Contents(fragments) ==
    {Flatten(f) : f \in UNION {[1..n -> fragments] : n \in 0..MaxFragments}}

\* message bodies for the highlight / summary generator
InsightFragments ==
    { <<"a", ".", " ", "b", "b", "!", " ">>,
      <<"c", "c", "c", "?", "\n", "d", ".", " ">>,
      <<Backtick, "e", Backtick>>,
      <<Backtick, Backtick, Backtick, "x", ".", " ", "y", Backtick, Backtick, Backtick>>,
      <<"\n", "#", " ">>,
      <<"[", "l", "]", "(", "u", ")", ".", " ", "!", "[", "]", "(", "u", ")">> }

\* message bodies for the plain-text copy
PlainFragments ==
    { <<Backtick, Backtick, Backtick>>,
      <<Backtick>>,
      <<"x", "\n">>,
      <<"[", "l", "]", "(", "u", ")">>,
      <<"*", "*", " ">>,
      <<"\n", "\n", "\n", "U+2600">> }

\* "**bold** and [a link](http://x.com)"
BoldAndLink ==
    <<"*", "*", "b", "o", "l", "d", "*", "*", " ", "a", "n", "d", " ",
      "[", "a", " ", "l", "i", "n", "k", "]", "(", "http://", "x", ".", "c", "o", "m", ")">>

sessionVars == <<messages, viewVars, highlightsByMessage, summaryByMessage, expandedInsights,
                 expandedSummary, clipboard, copiedMessageId, copyTimers, download, lastCall,
                 pdfPhase, cursorY, pdfPages, pdfDrawn, pdfFooters, pdfLines, pdfIndex>>

NoDownload == [kind |-> "none", name |-> <<>>, body |-> <<>>]

\* the session state after construction: every useState of the view at its
\* initial value, the hosting page supplying the messages
InitSession(first, second) ==
    /\ \E c1 \in first, c2 \in second :
          messages = [m \in MsgIds |-> IF m = "m1" THEN c1 ELSE c2]
    /\ highlightsByMessage = EmptyRecord
    /\ summaryByMessage = EmptyRecord
    /\ expandedInsights = EmptyRecord
    /\ expandedSummary = EmptyRecord
    /\ clipboard = NoClipboard
    /\ copiedMessageId = "null"
    /\ copyTimers = 0
    /\ download = NoDownload
    /\ lastCall = Call("mount", <<>>, "")
    /\ pdfPhase = "idle"
    /\ cursorY = 0
    /\ pdfPages = 0
    /\ pdfDrawn = <<>>
    /\ pdfFooters = NoFooters
    /\ pdfLines = <<>>
    /\ pdfIndex = 0
    /\ InitViews

NoMessages == InitSession({<<>>}, {<<>>})

\* a step of the highlight / summary handlers
InsightStep(A) ==
    /\ A
    /\ UNCHANGED <<annotVars, formVars, messages, viewVars, exportVars, pdfVars>>

\* a step of the copy handlers
CopyStep(A) ==
    /\ A
    /\ UNCHANGED <<pinnedMessages, messageTagsMap, localStorage, uncaught, lastOp>>
    /\ UNCHANGED <<formVars, messages, viewVars, insightVars, download, pdfVars>>

\* variant: the summaries are kept over the reload
PageReloadKeepsSummaries ==
    /\ handleNewChat
    /\ highlightsByMessage' = EmptyRecord
    /\ expandedInsights' = EmptyRecord
    /\ copiedMessageId' = "null"
    /\ copyTimers' = 0
    /\ lastCall' = Call("reload", <<>>, "")
    /\ UNCHANGED <<summaryByMessage, expandedSummary>>
    /\ UNCHANGED <<formVars, messages, viewVars, clipboard, download, pdfVars>>

\* window.location.reload() with the session state: every useState starts
\* over, the pending timers go with the page, the clipboard and the storage stay
PageReload ==
    /\ handleNewChat
    /\ highlightsByMessage' = EmptyRecord
    /\ summaryByMessage' = EmptyRecord
    /\ expandedInsights' = EmptyRecord
    /\ expandedSummary' = EmptyRecord
    /\ copiedMessageId' = "null"
    /\ copyTimers' = 0
    /\ lastCall' = Call("reload", <<>>, "")
    /\ UNCHANGED <<formVars, messages, viewVars, clipboard, download, pdfVars>>


\* a step of the pin / tag handlers among the session handlers
AnnotStep(A) == A /\ UNCHANGED formVars /\ UNCHANGED sessionVars

\* the history left as it is
Untracked(A) == A /\ UNCHANGED histVars

SessionSnapshot ==
    [pinned |-> pinnedMessages, tags |-> messageTagsMap,
     highlights |-> highlightsByMessage, summaries |-> summaryByMessage,
     expanded |-> <<expandedInsights, expandedSummary>>]

\* a step that records the handler run before and the state it found
Recorded(A) == A /\ prevOp' = lastOp /\ before' = SessionSnapshot

\* a step of the download handlers
DownloadStep(A) ==
    /\ A
    /\ UNCHANGED <<pinnedMessages, messageTagsMap, localStorage, uncaught, lastOp>>
    /\ UNCHANGED <<formVars, messages, viewVars, insightVars, clipboard, copiedMessageId, copyTimers, pdfVars>>

\* message bodies for the HTML export
HtmlFragments ==
    { <<"a", " ", "b">>,
      <<"\n">>,
      <<"&amp;">>,
      <<"c", ".">>,
      <<"*">>,
      <<"#", " ">> }

\* a step of handleDownloadPdf
PdfStep(A) ==
    /\ A
    /\ UNCHANGED <<pinnedMessages, messageTagsMap, localStorage, uncaught, lastOp>>
    /\ UNCHANGED <<formVars, messages, viewVars, insightVars, clipboard, copiedMessageId, copyTimers>>

\* the lines of the message bodies for the PDF export
PdfHeading == <<"#", " ", "T">>

PdfTails ==
    { <<>>,
      << <<"#", " ", "T">>, <<"#", "#", " ", "T">>, <<"#", "#", "#", " ", "T", "U+1F600">>,
         <<"-", " ", "i", "t", "e", "m">>, <<"1", ".", " ", "o", "n", "e">>, <<"o", "k">>,
         <<"t", "e", "x", "t">> >>,
      << <<>>, <<>>, <<"-", " ", "i", "t", "e", "m">> >>,
      << <<>>, <<"1", "2", ".", " ", "o", "n", "e">> >>,
      << <<"s", "e", "e", " ", "[", "s", "r", "c", "]", "(", "https://", "x", ")", " ",
           "*", "*", "b", "*", "*", " ", "http://", "y">> >>,
      << <<"*", " ", "[", "s", "]", "(", "http://", "x", ")">>, <<>>, <<"#", " ", "T">> >>,
      << <<Backtick, Backtick, Backtick, "p", "y">>, <<"#", " ", "c">>,
         <<Backtick, Backtick, Backtick>>, <<"o", "k", ".">> >> }

\* message bodies for the PDF export: headings that fill the first page or
\* none, then one of the tails
PdfContents ==
    {Join([j \in 1..k |-> PdfHeading] \o tail, <<"\n">>) :
        k \in {0, MaxFill - 1, MaxFill}, tail \in PdfTails}

----------------------------------------------------------------------------
(* Specifications *)

\* a step of the annotation handlers, the history left as it is
Plain(A) == A /\ UNCHANGED histVars /\ UNCHANGED formVars /\ UNCHANGED sessionVars

\* a step of the annotation handlers that records what the handler found
Tracked(A) ==
    A /\ prevOp' = lastOp /\ before' = Snapshot /\ UNCHANGED formVars /\ UNCHANGED sessionVars

\* pins and tags together
Init == InitAnnotations(PinnedStoredChoices, TagsStoredChoices) /\ InitForm /\ NoMessages

Next ==
    \/ \E m \in MsgIds : Plain(handleTogglePin(m))
    \/ \E m \in MsgIds, tag \in Tags : Plain(handleSetTag(m, tag))
    \/ \E m \in MsgIds : Plain(handleRemoveTag(m))
    \/ Plain(ClearAllPins)
    \/ Plain(handleNewChat)

Spec == Init /\ [][Next]_vars

\* the pinned list alone, with the history of the last two handler runs
InitPins ==
    InitAnnotations(PinnedStoredChoices \cup PinnedStoredForeign, {Absent}) /\ InitForm /\ NoMessages

NextPins ==
    \/ \E m \in MsgIds : Tracked(handleTogglePin(m))
    \/ Tracked(ClearAllPins)
    \/ Tracked(handleNewChat)

SpecPins == InitPins /\ [][NextPins]_vars

\* the tag map alone, with the history of the last two handler runs
InitTags ==
    InitAnnotations({Absent}, TagsStoredChoices \cup TagsStoredForeign) /\ InitForm /\ NoMessages

NextTags ==
    \/ \E m \in MsgIds, tag \in Tags : Tracked(handleSetTag(m, tag))
    \/ \E m \in MsgIds : Tracked(handleRemoveTag(m))
    \/ Tracked(handleNewChat)

SpecTags == InitTags /\ [][NextTags]_vars

\* the input form alone
InitInputForm == InitAnnotations({Absent}, {Absent}) /\ InitForm /\ NoMessages

NextInputForm ==
    \/ \E value \in Texts : onChange(value) /\ UNCHANGED annotVars /\ UNCHANGED histVars /\ UNCHANGED sessionVars
    \/ \E key \in {"Enter", "a"}, shiftKey \in BOOLEAN :
          handleKeyDown(key, shiftKey) /\ UNCHANGED annotVars /\ UNCHANGED histVars /\ UNCHANGED sessionVars
    \/ SendButtonClick /\ UNCHANGED annotVars /\ UNCHANGED histVars /\ UNCHANGED sessionVars
    \/ \E b \in BOOLEAN : SetLoading(b) /\ UNCHANGED annotVars /\ UNCHANGED histVars /\ UNCHANGED sessionVars

SpecInputForm == InitInputForm /\ [][NextInputForm]_vars

\* the highlight / summary generator over the message bodies
InitSummaries ==
    /\ InitAnnotations({Absent}, {Absent}) /\ InitForm
    /\ InitSession(Contents(InsightFragments), {<<>>})

NextSummaries ==
    \/ \E m \in MsgIds : Untracked(InsightStep(handleGenerateHighlights(messages[m], m)))
    \/ \E m \in MsgIds : Untracked(InsightStep(handleGenerateSummary(messages[m], m)))

SpecSummaries == InitSummaries /\ [][NextSummaries]_vars

\* highlights and summaries next to pins and tags, with the page reload
InitInsights ==
    /\ InitAnnotations({Absent}, {Absent}) /\ InitForm
    /\ InitSession({<<"a", ".", " ", "b", "!">>,
                    <<"#", " ", Backtick, Backtick, Backtick, "x", Backtick, Backtick, Backtick>>},
                   {<<>>, <<"c", "?">>})

NextInsights ==
    \/ \E m \in MsgIds : Recorded(InsightStep(handleGenerateHighlights(messages[m], m)))
    \/ \E m \in MsgIds : Recorded(InsightStep(handleGenerateSummary(messages[m], m)))
    \/ \E m \in MsgIds : Recorded(InsightStep(ToggleInsights(m)))
    \/ \E m \in MsgIds : Recorded(InsightStep(ToggleSummary(m)))
    \/ Recorded(AnnotStep(handleTogglePin("m1")))
    \/ Recorded(AnnotStep(handleSetTag("m1", "action")))
    \/ Recorded(PageReload)

SpecInsights == InitInsights /\ [][NextInsights]_vars

\* the plain-text copy over the message bodies
InitPlainText ==
    /\ InitAnnotations({Absent}, {Absent}) /\ InitForm
    /\ InitSession(Contents(PlainFragments) \cup {BoldAndLink}, {<<>>})

NextPlainText ==
    \/ \E m \in MsgIds : Untracked(CopyStep(handleCopyPlainText(messages[m], m)))
    \/ Untracked(CopyStep(CopiedTimeout))

SpecPlainText == InitPlainText /\ [][NextPlainText]_vars

\* the HTML export over the message bodies
InitHtml ==
    /\ InitAnnotations({Absent}, {Absent}) /\ InitForm
    /\ InitSession(Contents(HtmlFragments), {<<>>})

NextHtml ==
    \E m \in MsgIds : Untracked(DownloadStep(handleDownloadHtml(messages[m], m)))

SpecHtml == InitHtml /\ [][NextHtml]_vars

\* the PDF export of the message m1
InitPdf == InitAnnotations({Absent}, {Absent}) /\ InitForm /\ InitSession(PdfContents, {<<>>})

NextPdf ==
    \/ Untracked(PdfStep(PdfBegin(messages["m1"], "m1")))
    \/ \E n \in 1..MaxWrap : Untracked(PdfStep(PdfLine(n)))
    \/ Untracked(PdfStep(PdfEndOfContent))
    \/ Untracked(PdfStep(PdfFooter))
    \/ Untracked(PdfStep(PdfSave))

SpecPdf == InitPdf /\ [][NextPdf]_vars

\* the agent identity of the messages on screen
InitProfiles == InitAnnotations({Absent}, {Absent}) /\ InitForm /\ NoMessages

NextProfiles ==
    \/ \E id \in ViewIds, agent \in AgentSamples :
          ViewStep(HostAppends(Message(id, "ai", agent)))
    \/ \E id \in ViewIds : ViewStep(HostAppends(Message(id, "human", Undefined)))
    \/ \E b \in BOOLEAN : ViewStep(HostLoading(b))

SpecProfiles == InitProfiles /\ [][NextProfiles]_vars

\* the chat view with its messages, their events, the loading flag and the pins
InitView ==
    /\ InitAnnotations({Absent, Stored(JSONstringify(JsArr(<<"m1">>)))} \cup PinnedStoredForeign,
                       {Absent})
    /\ InitForm
    /\ NoMessages

NextView ==
    \/ \E id \in ViewIds, type \in {"human", "ai"} :
          ViewStep(HostAppends(Message(id, type, IF type = "ai" THEN "nexus" ELSE Undefined)))
    \/ \E id \in ViewIds : ViewStep(HostEvent(id, "Thinking"))
    \/ \E b \in BOOLEAN : ViewStep(HostLoading(b))
    \/ \E id \in ViewIds : ViewStep(PinClick(id))
    \/ ViewStep(ClearPinsClick)
    \/ ViewStep(ViewReload)

SpecView == InitView /\ [][NextView]_vars

\* the pieces the titles of the events are made of
TitleFragments ==
    { <<"Thinking">>,
      <<"RESEARCH">>,
      <<"Function", " ", "Call">>,
      <<"function", " ", "response">>,
      <<"Generating">>,
      <<"Reflection">> }

\* the titles made of at most MaxTitleParts pieces
Titles ==
    {Flatten(f) : f \in UNION {[1..n -> TitleFragments] : n \in 0..MaxTitleParts}}

\* the activity timeline with its events and the loading flag
InitTimeline == InitAnnotations({Absent}, {Absent}) /\ InitForm /\ NoMessages

NextTimeline ==
    \/ \E title \in Titles : TimelineStep(TimelineEvent(title))
    \/ \E b \in BOOLEAN : TimelineStep(TimelineLoading(b))

SpecTimeline == InitTimeline /\ [][NextTimeline]_vars

\* the three copy buttons of two messages and the timers of the indicator;
\* the timers all run for two seconds, so the one that fires is the oldest
InitCopy ==
    /\ InitAnnotations({Absent}, {Absent}) /\ InitForm
    /\ InitSession({<<"x", "\n">>, <<Backtick, "e", Backtick>>}, {<<>>, <<"*", "*", " ">>})

NextCopy ==
    \/ \E m \in MsgIds : Untracked(CopyStep(handleCopy(messages[m], m)))
    \/ \E m \in MsgIds : Untracked(CopyStep(handleCopyMarkdown(messages[m], m)))
    \/ \E m \in MsgIds : Untracked(CopyStep(handleCopyPlainText(messages[m], m)))
    \/ Untracked(CopyStep(CopiedTimeout))

SpecCopy == InitCopy /\ [][NextCopy]_vars

\* the welcome screen: typing, Enter, the submit button, the loading flag
InitWelcome == InitAnnotations({Absent}, {Absent}) /\ InitForm /\ NoMessages

NextWelcome ==
    \/ \E value \in WelcomeTexts : WelcomeStep(setMessage(value))
    \/ \E key \in {"Enter", "a"}, shiftKey \in BOOLEAN : WelcomeStep(onKeyPress(key, shiftKey))
    \/ WelcomeStep(SubmitButtonClick)
    \/ \E b \in BOOLEAN : WelcomeStep(WelcomeLoading(b))

SpecWelcome == InitWelcome /\ [][NextWelcome]_vars

----------------------------------------------------------------------------
(* Pin toggle *)

IsToggle(op, m) == op.op = "togglePin" /\ op.id = m

\* C1: when the last handler run pinned m into a list that did not hold m, a
\* toggle of m as the next step gives back that list: the same ids in the
\* same order.
C1_PinThenUnpinRestores ==
    [][\A m \in MsgIds :
          (/\ IsToggle(lastOp, m)
           /\ before.pinned.t = "arr"
           /\ ~Includes(before.pinned.v, m)
           /\ IsToggle(lastOp', m))
          => pinnedMessages'.v = before.pinned.v]_vars

\* m2 pinned next to m1 and unpinned again
C1_Witness ==
    /\ IsToggle(prevOp, "m2")
    /\ IsToggle(lastOp, "m2")
    /\ pinnedMessages.v = <<"m1">>
    /\ before.pinned.v = <<"m1", "m2">>

\* C2: a toggle of an id that is not pinned appends it at the end of the list;
\* a toggle of a pinned id removes that id and leaves every other id where it
\* was relative to the others.
C2_PinAppendsUnpinRemoves ==
    [][\A m \in MsgIds :
          (IsToggle(lastOp', m) /\ pinnedMessages.t = "arr")
          => IF m \in Range(pinnedMessages.v)
             THEN pinnedMessages'.v = SelectSeq(pinnedMessages.v, LAMBDA id : id # m)
             ELSE pinnedMessages'.v = pinnedMessages.v \o <<m>>]_vars

\* pin m1, pin m2 gave [m1, m2]; unpin m1 gives [m2]
C2_Witness ==
    /\ IsToggle(prevOp, "m2")
    /\ IsToggle(lastOp, "m1")
    /\ before.pinned.v = <<"m1", "m2">>
    /\ pinnedMessages.v = <<"m2">>

----------------------------------------------------------------------------
(* Tags *)

Members == Spread(messageTagsMap)

\* C3: the tag map never holds two members for one message id, and right after
\* handleSetTag(m, t) the member of m is t, whatever it was before.
C3_OneTagPerMessage ==
    /\ \A i, j \in 1..Len(Members) : Members[i][1] = Members[j][1] => i = j
    /\ lastOp.op = "setTag" =>
          /\ messageTagsMap.t = "obj"
          /\ \E i \in 1..Len(Members) : Members[i] = <<lastOp.id, lastOp.tag>>
          /\ \A i \in 1..Len(Members) : Members[i][1] = lastOp.id => Members[i][2] = lastOp.tag

\* m1 tagged action, then tagged decision
C3_Witness ==
    /\ prevOp.op = "setTag" /\ prevOp.id = "m1" /\ prevOp.tag = "action"
    /\ lastOp.op = "setTag" /\ lastOp.id = "m1" /\ lastOp.tag = "decision"
    /\ before.tags.v = << <<"m1", "action">> >>
    /\ messageTagsMap.v = << <<"m1", "decision">> >>

\* C9: every tag held in the tag map is one of decision, action, idea, also
\* right after the map was read back from local storage.
C9_TagsAreFromTheClosedSet ==
    \A i \in 1..Len(Members) : Members[i][2] \in Tags

----------------------------------------------------------------------------
(* Storage mirror *)

IsConstruction == lastOp.op \in {"mount", "reload"}

\* the text under `key` is there and JSON.parse rejects it
NotJson(key) ==
    localStorage[key].present /\ ~JSONparse(localStorage[key].text).ok

\* the text under `key` is JSON of a type other than t
OtherShape(key, t) ==
    /\ Truthy(localStorage[key])
    /\ JSONparse(localStorage[key].text).ok
    /\ JSONparse(localStorage[key].text).value.t # t

KeyOf(op) == IF op \in {"togglePin", "clearPins"} THEN PinnedKey ELSE TagsKey
StateOf(op) == IF op \in {"togglePin", "clearPins"} THEN pinnedMessages ELSE messageTagsMap
ErrorOf(op) ==
    IF op = "togglePin" THEN PinSaveError
    ELSE IF op = "setTag" THEN TagSaveError ELSE TagRemoveError

\* the stored text under the key of `op` is JSON that decodes to the state
Mirrored(op) ==
    /\ localStorage[KeyOf(op)].present
    /\ JSONparse(localStorage[KeyOf(op)].text).ok
    /\ JsEq(JSONparse(localStorage[KeyOf(op)].text).value, StateOf(op))

PinWriteFailed == PinSaveError \in console
TagWriteFailed == TagSaveError \in console \/ TagRemoveError \in console

C7_MalformedJsonGivesEmpty ==
    IsConstruction =>
        /\ (NotJson(PinnedKey) \/ NotJson(TagsKey)) => uncaught # "initializer"
        /\ NotJson(PinnedKey) => JsEq(pinnedMessages, JsArr(<<>>))
        /\ NotJson(TagsKey) => JsEq(messageTagsMap, JsObj(<<>>))

\* both keys hold text that is not JSON
C7_Witness ==
    /\ lastOp.op = "mount"
    /\ localStorage[PinnedKey].text = <<BadTok>>
    /\ localStorage[TagsKey].text = <<Punct("{"), StrTok("m1"), Punct(":")>>
    /\ uncaught = "none"
    /\ pinnedMessages.v = <<>>
    /\ messageTagsMap.v = <<>>

\* C8: when the text under a key is JSON of the wrong shape, construction
\* starts from the empty list, respectively the empty map.
C8_WrongShapeGivesEmpty ==
    IsConstruction =>
        /\ OtherShape(PinnedKey, "arr") => JsEq(pinnedMessages, JsArr(<<>>))
        /\ OtherShape(TagsKey, "obj") => JsEq(messageTagsMap, JsObj(<<>>))

----------------------------------------------------------------------------
(* InputForm *)

IsSubmitAttempt(e) == e.kind \in {"click", "enter"}

\* q is s without the white space at its two ends
IsTrimmedFrom(q, s) ==
    \E i, j \in 1..Len(s) :
        /\ i <= j
        /\ q = SubSeq(s, i, j)
        /\ s[i] \notin WhiteSpace /\ s[j] \notin WhiteSpace
        /\ \A k \in 1..Len(s) : (k < i \/ k > j) => s[k] \in WhiteSpace

\* C10: a submit attempt (send button, Enter without Shift) calls onSubmit
\* exactly when the input holds something besides white space and isLoading is
\* false; it then passes the trimmed text and clears the input.  Every other
\* attempt, and every other event, calls nothing; a refused attempt leaves the
\* input as it is.
C10_SubmitOnlyWhenReady ==
    [][IF IsSubmitAttempt(lastEvent')
       THEN IF (\E k \in 1..Len(inputValue) : inputValue[k] \notin WhiteSpace) /\ ~isLoading
            THEN /\ Len(onSubmitCalls') = Len(onSubmitCalls) + 1
                 /\ SubSeq(onSubmitCalls', 1, Len(onSubmitCalls)) = onSubmitCalls
                 /\ IsTrimmedFrom(onSubmitCalls'[Len(onSubmitCalls')], inputValue)
                 /\ inputValue' = <<>>
            ELSE /\ onSubmitCalls' = onSubmitCalls
                 /\ inputValue' = inputValue
       ELSE onSubmitCalls' = onSubmitCalls]_vars

\* Enter on " a " submitted "a" and cleared the input
C10_Witness ==
    /\ lastEvent = Event("enter", TRUE, 3)
    /\ onSubmitCalls = << <<"a">> >>
    /\ inputValue = <<>>
    /\ ~isLoading

----------------------------------------------------------------------------
(* Highlights and summary *)

\* position i of a cleaned text separates two sentences: white space that
\* follows sentence-terminal punctuation
IsBreak(cleaned, i) ==
    /\ i > 1 /\ i <= Len(cleaned)
    /\ cleaned[i] \in WhiteSpace
    /\ cleaned[i - 1] \in Terminators

Breaks(cleaned) == {i \in 1..Len(cleaned) : IsBreak(cleaned, i)}

\* e is one of the sentences of the cleaned text: it runs from the start of
\* the text or a break to the next break or the end of the text
IsSentenceOf(e, cleaned) ==
    \E a \in 1..Len(cleaned), b \in 1..Len(cleaned) :
        /\ a <= b
        /\ e = SubSeq(cleaned, a, b)
        /\ a = 1 \/ IsBreak(cleaned, a - 1)
        /\ b = Len(cleaned) \/ IsBreak(cleaned, b + 1)
        /\ \A i \in a..b : ~IsBreak(cleaned, i)

\* C11: the highlights cached for a message are at most 5, and each of them is
\* a non-empty sentence of the cleaned content of that message.
C11_AtMostFiveSentences ==
    \A m \in MsgIds :
        Has(highlightsByMessage, m) =>
            /\ Len(highlightsByMessage[m]) <= 5
            /\ \A k \in 1..Len(highlightsByMessage[m]) :
                  /\ highlightsByMessage[m][k] # <<>>
                  /\ IsSentenceOf(highlightsByMessage[m][k], InsightCleaned(messages[m]))

\* highlights were generated for a message of more than five sentences
C11_Witness ==
    /\ Has(highlightsByMessage, "m1")
    /\ Len(highlightsByMessage["m1"]) = 5
    /\ Cardinality(Breaks(InsightCleaned(messages["m1"]))) >= 5

\* C12: the summary cached for a message is the cleaned content up to the end
\* of its third sentence, or the whole cleaned content when it has at most
\* three sentences; the sentences of a cleaned text are separated by single
\* spaces, so this is the first min(3, n) sentences, in order and verbatim,
\* joined by single spaces.
C12_SummaryIsFirstThreeSentences ==
    \A m \in MsgIds :
        Has(summaryByMessage, m) =>
            LET cleaned == InsightCleaned(messages[m])
                breaks == Breaks(cleaned)
                third == CHOOSE i \in breaks : Cardinality({j \in breaks : j < i}) = 2
            IN  /\ \A i \in breaks : cleaned[i] = " " /\ (i + 1) \notin breaks
                /\ summaryByMessage[m] =
                      IF Cardinality(breaks) <= 2 THEN cleaned
                      ELSE SubSeq(cleaned, 1, third - 1)

\* a summary was generated for a message of more than three sentences
C12_Witness ==
    /\ Has(summaryByMessage, "m1")
    /\ Cardinality(Breaks(InsightCleaned(messages["m1"]))) >= 3
    /\ Cardinality(Breaks(summaryByMessage["m1"])) = 2

IsGenerate(call) == call.fn \in {"highlights", "summary"}

\* C13: a highlight or summary generation on a content whose cleaned text is
\* empty leaves the cached highlights, the cached summaries and the expanded
\* flags of every message as they were.
C13_EmptyCleanedTextChangesNothing ==
    [][(IsGenerate(lastCall') /\ InsightCleaned(lastCall'.content) = <<>>)
          => UNCHANGED insightVars]_vars

\* highlights were asked for a non-empty content that cleans to nothing, with
\* a summary of the other message in the cache
C13_Witness ==
    /\ lastCall.fn = "highlights"
    /\ lastCall.content # <<>>
    /\ InsightCleaned(lastCall.content) = <<>>
    /\ Has(summaryByMessage, "m2")
    /\ ~Has(highlightsByMessage, lastCall.id)

IsReloaded == lastCall.fn = "reload" /\ lastOp.op = "reload"

----------------------------------------------------------------------------
(* Plain-text copy *)

\* "bold and a link"
BoldAndALink ==
    <<"b", "o", "l", "d", " ", "a", "n", "d", " ", "a", " ", "l", "i", "n", "k">>

\* C15: the plain-text copy of "**bold** and [a link](http://x.com)" puts
\* "bold and a link" on the clipboard.
C15_BoldAndLinkScenario ==
    (lastCall.fn = "copyPlain" /\ lastCall.content = BoldAndLink)
        => clipboard.text = BoldAndALink

\* the positions where the fences of a text start, read from left to right
RECURSIVE FenceTokens(_, _)
FenceTokens(s, i) ==
    IF i + 2 > Len(s) THEN <<>>
    ELSE IF s[i] = Backtick /\ s[i + 1] = Backtick /\ s[i + 2] = Backtick
         THEN <<i>> \o FenceTokens(s, i + 3)
         ELSE FenceTokens(s, i + 1)

\* the positions of the balanced fenced blocks: the first fence opens a block
\* that the second closes, the third opens one that the fourth closes, ...
BlockPositions(s) ==
    LET t == FenceTokens(s, 1)
    IN  UNION {t[2 * k - 1]..(t[2 * k] + 2) : k \in 1..(Len(t) \div 2)}

RECURSIVE Outside(_, _, _)
Outside(s, P, i) ==
    IF i > Len(s) THEN <<>>
    ELSE (IF i \in P THEN <<>> ELSE <<s[i]>>) \o Outside(s, P, i + 1)

\* C16: when the content holds a balanced fenced block, the text put on the
\* clipboard is made from the content with every such block cut out, its two
\* fences included: no character of a block, hence none of its delimiters,
\* takes part in the output.
C16_FencedBlocksAreCutOut ==
    (lastCall.fn = "copyPlain" /\ BlockPositions(lastCall.content) # {})
        => clipboard.text =
              PlainAfterFences(Outside(lastCall.content, BlockPositions(lastCall.content), 1))

\* a content with a fenced block and text around it was copied
C16_Witness ==
    /\ lastCall.fn = "copyPlain"
    /\ BlockPositions(lastCall.content) # {}
    /\ Len(FenceTokens(lastCall.content, 1)) = 3
    /\ clipboard.text # <<>>

----------------------------------------------------------------------------
(* HTML export *)

\* the characters markdownToHtml gives a meaning to, and the character
\* references decodeHtmlEntities resolves
MarkdownSyntax ==
    {"#", "*", "_", "[", "]", "(", ")", Backtick, ">", "-", "&amp;", "&lt;", "&gt;"}

MarkdownFree(s) == \A k \in 1..Len(s) : s[k] \notin MarkdownSyntax

HasBlankLine(s) == \E k \in 1..(Len(s) - 1) : s[k] = "\n" /\ s[k + 1] = "\n"

----------------------------------------------------------------------------
(* PDF export *)

\* the trimmed line the content pass of the PDF export handled last
LastPdfLine == Trim(pdfLines[pdfIndex - 1])

\* the cleaning with every citation link reduced to its link text
CleanKeepingLinkText(text) ==
    CleanAfterCitations(Replace(text, CitationMatches(text, 1), Group1))

\* C18: the text the PDF export draws for a content line is the text of the
\* line with every citation link [text](http://...) replaced by its link text,
\* the bare URLs that remain removed and the emphasis markers removed.
C18_CitationLinksKeepTheirText ==
    (pdfPhase = "content" /\ lastCall.fn = "pdfLine") =>
        \A k \in 1..Len(pdfDrawn) :
            pdfDrawn[k].op = "text" =>
                pdfDrawn[k].text = CleanKeepingLinkText(LineText(LastPdfLine))

\* C19: every drawing call the content pass issues for a content line is
\* given a height inside the printable area of the page, that is not below
\* the bottom margin.
C19_DrawCallsInsidePrintableArea ==
    \A k \in 1..Len(pdfDrawn) : pdfDrawn[k].y * 100 <= pageHeight - margin * 100

\* the one footer of page p of a document of pdfPages pages
OneFooter(p) == <<[page |-> p, of |-> pdfPages]>>

\* C20: no footer is stamped while the content pass runs; every footer
\* stamped is the only one of its page and reads page p of the pages the
\* content pass created; when the document is saved every page has its footer.
C20_OneFooterPerPageAfterContent ==
    /\ pdfPhase = "content" => pdfFooters = NoFooters
    /\ pdfPhase \in {"footer", "saved", "failed"} =>
          \A p \in DOMAIN pdfFooters : p \in 1..pdfPages /\ pdfFooters[p] = OneFooter(p)
    /\ pdfPhase \in {"saved", "failed"} => DOMAIN pdfFooters = 1..pdfPages

C20_Witness ==
    /\ pdfPhase = "saved"
    /\ pdfPages >= 2
    /\ DOMAIN pdfFooters = 1..pdfPages
    /\ download.kind = "pdf"

----------------------------------------------------------------------------
(* The agent identity of a message *)

\* the profile the dictionary writes under a key
WrittenProfile(key) ==
    LET p == CHOOSE p \in agentProfiles : key \in p.keys
    IN  [avatar |-> p.image, name |-> p.name]

\* C21: an AI message whose agent identifier is literally a key of the profile
\* dictionary is shown with the profile written under that key, and an AI
\* message with any other identifier (another case, a blank around it, no
\* identifier) is shown with the generic fallback identity.
C21_IdentifierResolvesByLiteralKey ==
    \A i \in 1..Len(messageList) :
        messageList[i].type = "ai" =>
            chatView.identities[i] =
                IF messageList[i].agent \in ProfileKeys
                THEN WrittenProfile(messageList[i].agent)
                ELSE FallbackIdentity

----------------------------------------------------------------------------
(* The activity timeline in the chat view *)

\* the most recent AI message of the list has a processed event
LastAiHasEvents ==
    \E i \in 1..Len(messageList) :
        /\ isCurrentMessageTheLastAiMessage(messageList[i], messageList)
        /\ eventsForMessage(messageList[i], messageEvents) # <<>>

----------------------------------------------------------------------------
(* The loading indicators *)

\* C28: whatever the message list and isLoading are, the chat view renders at
\* most one "Thinking..." indicator.
C28_AtMostOneThinkingIndicator == chatView.thinking <= 1

----------------------------------------------------------------------------
(* The pinned badge and the session-summary panel *)

\* C29: the number on the pinned badge equals the number of pinned entries
\* the session-summary panel lists (no badge when the panel lists none), also
\* after a reload into a conversation whose message ids are not the pinned ids.
C29_BadgeEqualsPanelEntries == chatView.badge.count = Len(chatView.panel)

----------------------------------------------------------------------------
(* The icon of a timeline entry *)

TitleHas(title, words) == StringIncludes(toLowerCase(title), words)

\* one of the keywords tested before "thinking"
BeforeThinking(title) ==
    \/ TitleHas(title, <<"function", " ", "call">>)
    \/ TitleHas(title, <<"function", " ", "response">>)
    \/ TitleHas(title, <<"generating">>)

\* one of the keywords tested before "research"
BeforeResearch(title) ==
    \/ BeforeThinking(title)
    \/ TitleHas(title, <<"thinking">>)
    \/ TitleHas(title, <<"reflection">>)

\* C23 as stated: every entry whose title contains "thinking", in any case,
\* has the spinner and every entry whose title contains "research" has the
\* search icon, whatever else the title contains.
C23_KeywordAloneDecidesIcon ==
    \A i \in 1..Len(processedEvents) :
        /\ TitleHas(processedEvents[i], <<"thinking">>) => timeline[i] = Spinner
        /\ TitleHas(processedEvents[i], <<"research">>) => timeline[i] = SearchIcon

\* C23: the keywords are tried in a fixed order and the first one found in the
\* lower-cased title decides: an entry has the spinner when its title contains
\* "thinking" and none of "function call", "function response", "generating";
\* it has the search icon when its title contains "research" and none of
\* those three, "thinking" and "reflection".
C23_FirstKeywordDecidesIcon ==
    \A i \in 1..Len(processedEvents) :
        /\ (TitleHas(processedEvents[i], <<"thinking">>) /\ ~BeforeThinking(processedEvents[i]))
              => timeline[i] = Spinner
        /\ (TitleHas(processedEvents[i], <<"research">>) /\ ~BeforeResearch(processedEvents[i]))
              => timeline[i] = SearchIcon
        /\ (TitleHas(processedEvents[i], <<"thinking">>) /\ BeforeThinking(processedEvents[i]))
              => timeline[i] # Spinner
        /\ (TitleHas(processedEvents[i], <<"research">>) /\ BeforeResearch(processedEvents[i]))
              => timeline[i] # SearchIcon

\* the entry "RESEARCH Thinking" rendered: both keywords, the spinner
C23_Witness ==
    /\ processedEvents = << <<"RESEARCH", "Thinking">> >>
    /\ timeline = <<Spinner>>

----------------------------------------------------------------------------
(* The "Copied!" indicator *)

\* a copy handler has written to the clipboard in this step
CopySucceeds == lastCall'.fn \in {"copy", "copyMarkdown", "copyPlain"} /\ copyTimers' > copyTimers

\* C24: after a successful copy of a message the indicator shows that message
\* and it is cleared by the timer of that copy, two seconds after it: a timer
\* that clears a shown indicator is the only one pending, so that a second
\* copy made less than two seconds after a first one keeps its indicator for
\* the full two seconds.
C24_IndicatorClearedByItsOwnTimer ==
    [][/\ CopySucceeds => copiedMessageId' = lastCall'.id
       /\ (lastCall'.fn = "copiedTimeout" /\ copiedMessageId # "null") => copyTimers = 1]_vars

----------------------------------------------------------------------------
(* The highlights are the top-scoring sentences *)

\* how often a text occurs in a list
Occurrences(list, x) == Cardinality({k \in 1..Len(list) : list[k] = x})

\* `top` is a choice of min(5, n) of the n sentences that leaves out none
\* that scores higher than one it takes, listed by falling score
IsTopFive(top, sentences) ==
    /\ Len(top) = (IF Len(sentences) < 5 THEN Len(sentences) ELSE 5)
    /\ \A x \in Range(top) : Occurrences(top, x) <= Occurrences(sentences, x)
    /\ \A x \in Range(sentences) :
          Occurrences(top, x) < Occurrences(sentences, x) =>
              \A k \in 1..Len(top) : Score(x) <= Score(top[k])
    /\ \A k \in 1..(Len(top) - 1) : Score(top[k]) >= Score(top[k + 1])

\* C25: the highlights cached for a message are the five sentences of its
\* cleaned content with the highest score min(length, 300), or all of them
\* when there are fewer: no sentence left out scores higher than one that is
\* included, and they are listed in non-increasing order of score.
C25_HighlightsAreTopScoring ==
    \A m \in MsgIds :
        Has(highlightsByMessage, m) =>
            IsTopFive(highlightsByMessage[m], InsightSentences(InsightCleaned(messages[m])))

\* highlights generated for six sentences: the fifth of the text is listed
\* first, ahead of shorter ones, and the sixth scores no more than the last
\* one listed
C25_Witness ==
    /\ Has(highlightsByMessage, "m1")
    /\ Len(InsightSentences(InsightCleaned(messages["m1"]))) = 6
    /\ InsightSentences(InsightCleaned(messages["m1"]))[5] = highlightsByMessage["m1"][1]
    /\ Score(highlightsByMessage["m1"][1]) > Score(highlightsByMessage["m1"][5])
    /\ Score(InsightSentences(InsightCleaned(messages["m1"]))[6])
          <= Score(highlightsByMessage["m1"][5])

----------------------------------------------------------------------------
(* Fenced code in the PDF export *)

Fence == <<Backtick, Backtick, Backtick>>

\* the k-th line of the exported content is a fence boundary
IsFenceLine(k) == StartsWith(Trim(pdfLines[k]), 1, Fence)

\* the line handled last lies between an opening and a closing boundary
LastPdfLineIsFenced ==
    /\ ~IsFenceLine(pdfIndex - 1)
    /\ Cardinality({k \in 1..(pdfIndex - 2) : IsFenceLine(k)}) % 2 = 1

\* C26: a content line that starts with a triple backtick is a code-fence
\* boundary and none of its text is drawn, and a line between two boundaries
\* is drawn as code, never as a heading, a bullet or a numbered item.
C26_FenceLinesAreBoundaries ==
    (pdfPhase = "content" /\ lastCall.fn = "pdfLine") =>
        /\ IsFenceLine(pdfIndex - 1) => pdfDrawn = <<>>
        /\ LastPdfLineIsFenced =>
              \A k \in 1..Len(pdfDrawn) : pdfDrawn[k].op \notin {"line", "circle", "number"}

----------------------------------------------------------------------------
(* The welcome screen *)

\* C27: the welcome screen never invokes handleSubmit while isLoading is
\* true, whether by the submit button or by the Enter key, and never with a
\* message that is empty after trimming.
C27_SubmitOnlyWhenIdleAndNotBlank ==
    \A k \in 1..Len(handleSubmitCalls) :
        /\ ~handleSubmitCalls[k].loading
        /\ Trim(handleSubmitCalls[k].query) # <<>>

----------------------------------------------------------------------------
(* No id is pinned twice *)

\* the pinned list is an array that holds no id twice
NoDuplicates(pinned) ==
    /\ pinned.t = "arr"
    /\ \A i, j \in 1..Len(pinned.v) : pinned.v[i] = pinned.v[j] => i = j

\* C30: a pin toggle or "Clear All Pins" that finds a pinned list with no id
\* in it twice leaves one with no id in it twice; so a list that starts empty
\* or duplicate-free stays so over every sequence of such steps.
C30_TogglesKeepPinsDistinct ==
    [][(NoDuplicates(pinnedMessages) /\ lastOp'.op \in {"togglePin", "clearPins"})
          => NoDuplicates(pinnedMessages')]_vars

\* m2 pinned, then m1: two different ids in the list
C30_Witness ==
    /\ IsToggle(lastOp, "m1")
    /\ IsToggle(prevOp, "m2")
    /\ before.pinned.v = <<"m2">>
    /\ pinnedMessages.v = <<"m2", "m1">>
    /\ NoDuplicates(pinnedMessages)

====
